---- MODULE Spec2Model ----
(***************************************************************************)
(* A model of the Local-Flix media library (src/4.1.py): the file name     *)
(* parsers, the season grouper, the on-disk metadata/poster cache, the     *)
(* library scan with its background fetch tasks, and the player's resume   *)
(* position bookkeeping.                                                   *)
(*                                                                         *)
(* Python strings are sequences of one-character strings.                  *)
(***************************************************************************)
EXTENDS Integers, Sequences, FiniteSets, TLC

VARIABLES
    pyName,        \* parser harness: the file name handed to the parsers
    pyResult,      \* parser harness: what the last parser call returned
    pyCall,        \* parser harness: which parser ran last ("none" at start)
    dirExists,     \* series folder: whether the folder path exists
    dirEntries,    \* series folder: its direct children in os.scandir order
    seasons,       \* SeriesViewerWindow: what parse_series_folder returned
    seriesCall,    \* SeriesViewerWindow: "none" until populate_episodes ran
    metaDir,       \* .cache/metadata: a set of [key, data]
    posterDir,     \* .cache/posters: a set of [key, data]
    cacheTrace,    \* cache harness: the two calls it makes, in order
    folders,       \* LibraryWindow.folders with what the disk holds under each
    objs,          \* every VideoItem and SeriesItem created so far, by identity
    video_items,   \* LibraryWindow.video_items: identities, in order
    ioLog,         \* the cache accesses and remote queries made, per entry
    uiError,       \* an exception escaped refresh_list
    searchText,    \* the text of the search box
    genreCombo,    \* the entries of the genre drop-down (0 is "All Genres")
    genreSel,      \* the selected entry of the genre drop-down
    scanned,       \* refresh_list has run since the window was built
    config,        \* the configuration dict in memory: positions, last_watched
    configFile,    \* config.json: what save_config last wrote
    player,        \* the VLCPlayerWindow: state, media, time in ms, timers
    boot,          \* the module-level start-up: config.json, phase, error, makedirs
    videos,        \* listing harness: what list_videos_in_dirs returned
    listCall,      \* listing harness: "none", "recursive" or "top"
    race           \* one metadata file with the threads that read and write it

parseVars == <<pyName, pyResult, pyCall>>

seriesVars == <<dirExists, dirEntries, seasons, seriesCall>>

cacheVars == <<metaDir, posterDir, cacheTrace>>

libVars == <<folders, objs, video_items, ioLog, uiError, searchText, genreCombo, genreSel,
            scanned>>

playerVars == <<config, configFile, player>>

bootVars == <<boot>>

listVars == <<videos, listCall>>

raceVars == <<race>>

vars == <<pyName, pyResult, pyCall, dirExists, dirEntries, seasons, seriesCall,
          metaDir, posterDir, cacheTrace,
          folders, objs, video_items, ioLog, uiError, searchText, genreCombo, genreSel,
          scanned,
          config, configFile, player, boot, videos, listCall, race>>

\* what mplayer.get_time() gives when nothing is loaded
NoTime == 0 - 1

\* no statement of the class assigns self._current_media_path: reading it
\* raises AttributeError
Unset == "unset"

\* the window before play and after the constructor
NoPlayer ==
    [state |-> "none", media |-> "none", time |-> NoTime, seek |-> FALSE, timer |-> FALSE,
     warned |-> FALSE, ticks |-> 0, current_media_path |-> Unset,
     playing |-> FALSE, inactivity_timer |-> FALSE]

\* no thread is reading or writing the metadata file
\* ret is <<>> for None and <<d>> for a returned dict d
NoReader == [pc |-> "none", ret |-> <<>>, raised |-> "none"]

NoRace == [platform |-> "posix", link |-> 0, inodes |-> <<>>, writers |-> <<>>,
           reader |-> NoReader]

\* the parser harness before any call
NoResult == [season |-> 0, episode |-> 0, title |-> <<>>]

\* JSON text is a sequence of tokens: strings, integers and punctuation
TStr(s) == [k |-> "str", s |-> s, n |-> 0]
TInt(n) == [k |-> "int", s |-> <<>>, n |-> n]
TPunct(c) == [k |-> c, s |-> <<>>, n |-> 0]
TEnd == TPunct("eof")

KeyApi == <<"t", "m", "d", "b", "_", "a", "p", "i", "_", "k", "e", "y">>

\* config.json with an API key, as a started program has read it
ConfigWithKey ==
    [exists |-> TRUE,
     data |-> <<TPunct("{"), TStr(KeyApi), TPunct(":"), TStr(<<"k">>), TPunct("}")>>]

ThemeDark == <<"D", "a", "r", "k">>

\* the start-up after lines 34-47 ran through and the window applied its
\* theme: the key is set, the cache directories are made, the theme is the
\* default of a configuration that names none
Booted ==
    [file |-> ConfigWithKey, phase |-> "ready", error |-> "none", makedirs |-> TRUE,
     theme |-> ThemeDark]

(***************************************************************************)
(* Characters and Python string primitives                                 *)
(***************************************************************************)
Digits == {"0", "1", "2", "3", "4", "5", "6", "7", "8", "9"}

DigitVal(c) ==
    CASE c = "0" -> 0 [] c = "1" -> 1 [] c = "2" -> 2 [] c = "3" -> 3
      [] c = "4" -> 4 [] c = "5" -> 5 [] c = "6" -> 6 [] c = "7" -> 7
      [] c = "8" -> 8 [] c = "9" -> 9

UpperLetters == <<"A", "B", "C", "D", "E", "F", "G", "H", "I", "J", "K", "L", "M",
                  "N", "O", "P", "Q", "R", "S", "T", "U", "V", "W", "X", "Y", "Z">>

LowerLetters == <<"a", "b", "c", "d", "e", "f", "g", "h", "i", "j", "k", "l", "m",
                  "n", "o", "p", "q", "r", "s", "t", "u", "v", "w", "x", "y", "z">>

\* the characters \s matches and str.strip() removes
Whitespace == {" ", "\t", "\n"}

IsDigit(c) == c \in Digits

IsSpace(c) == c \in Whitespace

\* str.lower() on one character
LowerChar(c) ==
    IF \E i \in 1..Len(UpperLetters) : UpperLetters[i] = c
    THEN LowerLetters[CHOOSE i \in 1..Len(UpperLetters) : UpperLetters[i] = c]
    ELSE c

\* str.lower()
Lower(s) == SubSeq([i \in 1..Len(s) |-> LowerChar(s[i])], 1, Len(s))

\* s[i:] with a 1-based first index
From(s, i) == SubSeq(s, i, Len(s))

\* str.endswith(suffix)
EndsWith(s, suf) ==
    /\ Len(suf) <= Len(s)
    /\ SubSeq(s, Len(s) - Len(suf) + 1, Len(s)) = suf

\* str.strip(): drop leading and trailing whitespace
RECURSIVE LStrip(_)
LStrip(s) == IF s # <<>> /\ IsSpace(Head(s)) THEN LStrip(Tail(s)) ELSE s

RECURSIVE RStrip(_)
RStrip(s) ==
    IF s # <<>> /\ IsSpace(s[Len(s)]) THEN RStrip(SubSeq(s, 1, Len(s) - 1)) ELSE s

Strip(s) == RStrip(LStrip(s))

\* int() of a string of decimal digits (leading zeros dropped)
RECURSIVE DigitsToInt(_)
DigitsToInt(ds) ==
    IF ds = <<>> THEN 0
    ELSE 10 * DigitsToInt(SubSeq(ds, 1, Len(ds) - 1)) + DigitVal(ds[Len(ds)])

\* index of the last "." of s, 0 when there is none (str.rfind)
RECURSIVE LastDot(_, _)
LastDot(s, i) == IF i = 0 THEN 0 ELSE IF s[i] = "." THEN i ELSE LastDot(s, i - 1)

\* os.path.splitext on a base name: the extension starts at the last dot,
\* unless only dots precede it (a leading-dot name has no extension)
SplitextDot(s) ==
    LET d == LastDot(s, Len(s)) IN
    IF d > 0 /\ \E j \in 1..(d - 1) : s[j] # "." THEN d ELSE 0

\* os.path.basename: what follows the last "/"
RECURSIVE LastSlash(_, _)
LastSlash(s, i) == IF i = 0 THEN 0 ELSE IF s[i] = "/" THEN i ELSE LastSlash(s, i - 1)

Basename(path) == From(path, LastSlash(path, Len(path)) + 1)

SplitextStem(s) ==
    IF SplitextDot(s) = 0 THEN s ELSE SubSeq(s, 1, SplitextDot(s) - 1)

SplitextExt(s) ==
    IF SplitextDot(s) = 0 THEN <<>> ELSE From(s, SplitextDot(s))

(***************************************************************************)
(* The primary pattern: S, 1-2 digits, E, 1-2 digits, spaces, hyphen,      *)
(* spaces, rest of the line (src/4.1.py:83, 103)                           *)
(***************************************************************************)
\* first index >= i whose character is not whitespace (Len+1 when none): \s*
RECURSIVE SkipSpace(_, _)
SkipSpace(s, i) ==
    IF i <= Len(s) /\ IsSpace(s[i]) THEN SkipSpace(s, i + 1) ELSE i

\* last index of the run of non-newline characters that starts at i: the last group
RECURSIVE DotStarEnd(_, _)
DotStarEnd(s, i) ==
    IF i <= Len(s) /\ s[i] # "\n" THEN DotStarEnd(s, i + 1) ELSE i - 1

AllDigits(s, i, k) == i + k - 1 <= Len(s) /\ \A j \in i..(i + k - 1) : IsDigit(s[j])

\* the prefix [Ss]\d{k1}[Ee]\d{k2} matches s at position p
SxxExxAt(s, p, k1, k2) ==
    /\ p + k1 + k2 + 1 <= Len(s)
    /\ s[p] \in {"S", "s"}
    /\ AllDigits(s, p + 1, k1)
    /\ s[p + k1 + 1] \in {"E", "e"}
    /\ AllDigits(s, p + k1 + 2, k2)

\* the whole primary pattern matches at the start of s with digit counts k1, k2
PrimaryWith(s, k1, k2) ==
    /\ SxxExxAt(s, 1, k1, k2)
    /\ LET h == SkipSpace(s, k1 + k2 + 3) IN h <= Len(s) /\ s[h] = "-"

\* the digit counts the greedy quantifiers settle on (two digits tried first)
PrimaryCounts(s) ==
    IF PrimaryWith(s, 2, 2) THEN <<2, 2>>
    ELSE IF PrimaryWith(s, 2, 1) THEN <<2, 1>>
    ELSE IF PrimaryWith(s, 1, 2) THEN <<1, 2>>
    ELSE IF PrimaryWith(s, 1, 1) THEN <<1, 1>>
    ELSE <<0, 0>>

\* re.match(primary, s): [ok, g1, g2, g3] with the three groups
PrimaryMatch(s) ==
    LET k == PrimaryCounts(s) IN
    IF k = <<0, 0>>
    THEN [ok |-> FALSE, g1 |-> <<>>, g2 |-> <<>>, g3 |-> <<>>]
    ELSE LET h == SkipSpace(s, k[1] + k[2] + 3)
             t == SkipSpace(s, h + 1)
         IN [ok |-> TRUE,
             g1 |-> SubSeq(s, 2, k[1] + 1),
             g2 |-> SubSeq(s, k[1] + 3, k[1] + k[2] + 2),
             g3 |-> SubSeq(s, t, DotStarEnd(s, t))]

\* a mutant of parse_filename: the title group is returned untrimmed
parse_filename_nostrip(filename) ==
    LET name == SplitextStem(filename)
        m == PrimaryMatch(name)
    IN IF m.ok
       THEN [season |-> DigitsToInt(m.g1), episode |-> DigitsToInt(m.g2), title |-> m.g3]
       ELSE [season |-> 1, episode |-> 0, title |-> name]

parse_filename(filename) ==
    LET name == SplitextStem(filename)
        m == PrimaryMatch(name)
    IN IF m.ok
       THEN [season |-> DigitsToInt(m.g1), episode |-> DigitsToInt(m.g2),
             title |-> Strip(m.g3)]
       ELSE [season |-> 1, episode |-> 0, title |-> name]

(***************************************************************************)
(* The secondary pattern, searched anywhere: S, 1-2 digits, E, 1-2 digits  *)
(***************************************************************************)
\* the episode group of the match at position p, <<>> when none starts there
EpisodeGroupAt(s, p) ==
    IF SxxExxAt(s, p, 2, 2) THEN SubSeq(s, p + 4, p + 5)
    ELSE IF SxxExxAt(s, p, 2, 1) THEN SubSeq(s, p + 4, p + 4)
    ELSE IF SxxExxAt(s, p, 1, 2) THEN SubSeq(s, p + 3, p + 4)
    ELSE IF SxxExxAt(s, p, 1, 1) THEN SubSeq(s, p + 3, p + 3)
    ELSE <<>>

\* re.match in place of re.search: the pattern is tried at p only
SearchFrom_match(s, p) == IF p <= Len(s) /\ EpisodeGroupAt(s, p) # <<>> THEN p ELSE 0

\* re.search: the leftmost position where the pattern matches, 0 when none
RECURSIVE SearchFrom(_, _)
SearchFrom(s, p) ==
    IF p > Len(s) THEN 0
    ELSE IF EpisodeGroupAt(s, p) # <<>> THEN p
    ELSE SearchFrom(s, p + 1)

\* a mutant of parse_episode_number: the rightmost match gives the number
parse_episode_number_last(name) ==
    LET P == {p \in 1..Len(name) : EpisodeGroupAt(name, p) # <<>>} IN
    IF P # {} THEN DigitsToInt(EpisodeGroupAt(name, CHOOSE p \in P : \A q \in P : q <= p))
    ELSE 0

parse_episode_number(name) ==
    LET p == SearchFrom(name, 1) IN
    IF p > 0 THEN DigitsToInt(EpisodeGroupAt(name, p)) ELSE 0

(***************************************************************************)
(* Season grouper                                                          *)
(***************************************************************************)
\* VIDEO_EXTS, the extensions the library scan recognizes
VIDEO_EXTS ==
    {<<".", "m", "p", "4">>, <<".", "m", "k", "v">>, <<".", "a", "v", "i">>,
     <<".", "m", "o", "v">>, <<".", "f", "l", "v">>, <<".", "w", "m", "v">>,
     <<".", "w", "e", "b", "m">>}

\* the default of parse_series_folder's video_exts parameter
SeriesDefaultExts ==
    {<<".", "m", "k", "v">>, <<".", "m", "p", "4">>, <<".", "a", "v", "i">>}

\* name.lower().endswith(exts) with a tuple of suffixes
HasExt(name, exts) == \E x \in exts : EndsWith(Lower(name), x)

\* str(n) for a natural number
DigitChar(d) ==
    CASE d = 0 -> "0" [] d = 1 -> "1" [] d = 2 -> "2" [] d = 3 -> "3"
      [] d = 4 -> "4" [] d = 5 -> "5" [] d = 6 -> "6" [] d = 7 -> "7"
      [] d = 8 -> "8" [] d = 9 -> "9"

RECURSIVE IntToStr(_)
IntToStr(n) ==
    IF n < 10 THEN <<DigitChar(n)>> ELSE IntToStr(n \div 10) \o <<DigitChar(n % 10)>>

\* the season name with the number in two digits
SeasonName_padded(n) ==
    <<"S", "e", "a", "s", "o", "n", " ">> \o (IF n < 10 THEN <<"0">> ELSE <<>>) \o IntToStr(n)

\* f"Season {season_num}"
SeasonName(n) == <<"S", "e", "a", "s", "o", "n", " ">> \o IntToStr(n)

\* the path of the folder the viewer was opened on, and entry.path
SeriesFolderPath == <<"/", "m", "/", "S", "h", "o", "w">>

EntryPath(folder, name) == folder \o <<"/">> \o name

\* Episode(title, path): the title is stored as the episode's name
Episode(title, path) == [name |-> title, path |-> path]

\* the key of the sort in parse_series_folder: it reads the episode's name
EpisodeSortKey(e) == parse_episode_number(e.name)

\* list.sort(key=...): a stable insertion of e into an already sorted list
RECURSIVE InsertByKey(_, _)
InsertByKey(sorted, e) ==
    IF sorted = <<>> THEN <<e>>
    ELSE IF EpisodeSortKey(sorted[Len(sorted)]) <= EpisodeSortKey(e)
         THEN Append(sorted, e)
         ELSE Append(InsertByKey(SubSeq(sorted, 1, Len(sorted) - 1), e),
                     sorted[Len(sorted)])

RECURSIVE SortEpisodes(_)
SortEpisodes(eps) ==
    IF eps = <<>> THEN <<>>
    ELSE InsertByKey(SortEpisodes(SubSeq(eps, 1, Len(eps) - 1)), eps[Len(eps)])

\* seasons[season_name].append(ep), creating the list on first use; the dict
\* is a list of [name, eps] in insertion order
AddToSeason(dict, sname, ep) ==
    IF \E i \in 1..Len(dict) : dict[i].name = sname
    THEN [i \in 1..Len(dict) |->
            IF dict[i].name = sname
            THEN [name |-> sname, eps |-> Append(dict[i].eps, ep)]
            ELSE dict[i]]
    ELSE Append(dict, [name |-> sname, eps |-> <<ep>>])

\* the scan loop of parse_series_folder over the first n entries
RECURSIVE GroupEntries(_, _, _, _)
GroupEntries(folder, entries, exts, n) ==
    IF n = 0 THEN <<>>
    ELSE LET before == GroupEntries(folder, entries, exts, n - 1)
             entry == entries[n]
             p == parse_filename(entry.name)
         IN IF entry.isFile /\ HasExt(entry.name, exts)
            THEN AddToSeason(before, SeasonName(p.season),
                             Episode(p.title, EntryPath(folder, entry.name)))
            ELSE before

parse_series_folder(folder, exists, entries, exts) ==
    IF ~exists THEN <<>>
    ELSE LET grouped == GroupEntries(folder, entries, exts, Len(entries))
         IN [i \in 1..Len(grouped) |->
                [name |-> grouped[i].name, eps |-> SortEpisodes(grouped[i].eps)]]

\* the names a series folder may hold
SeriesNames ==
    {<<"S", "0", "1", "E", "0", "2", " ", "-", " ", "B", "e", "t", "a", ".", "m", "k", "v">>,
     <<"S", "0", "1", "E", "0", "1", " ", "-", " ", "A", "l", "p", "h", "a", ".", "m", "k", "v">>,
     <<"s", "2", "e", "1", "-", "P", ".", "M", "P", "4">>,
     <<"S", "0", "1", "E", "0", "3", " ", "-", " ", "C", ".", "w", "e", "b", "m">>,
     <<"S", "1", "E", "9", " ", "-", " ", "S", "0", "1", "E", "0", "0", ".", "a", "v", "i">>,
     <<"E", "x", "t", "r", "a", ".", "m", "o", "v">>,
     <<"P", "i", "l", "o", "t", ".", "m", "k", "v">>,
     <<"S", "1", "0", "E", "0", "1", "-", "X", ".", "a", "v", "i">>,
     <<"n", "o", "t", "e", "s", ".", "t", "x", "t">>}

\* a sub-directory may carry a video-like name
SeriesDirNames == {<<"o", "l", "d", ".", "m", "k", "v">>}

SeriesEntries ==
    {[name |-> n, isFile |-> TRUE] : n \in SeriesNames}
        \cup {[name |-> n, isFile |-> FALSE] : n \in SeriesDirNames}

MaxDirEntries == 3

\* every enumeration order of every set of at most MaxDirEntries children
RECURSIVE Orderings(_)
Orderings(S) ==
    IF S = {} THEN {<<>>}
    ELSE UNION {{<<x>> \o rest : rest \in Orderings(S \ {x})} : x \in S}

DirListings ==
    UNION {Orderings(S) : S \in {T \in SUBSET SeriesEntries : Cardinality(T) <= MaxDirEntries}}

InitSeries ==
    /\ dirExists \in BOOLEAN
    /\ dirEntries \in (IF dirExists THEN DirListings ELSE {<<>>})
    /\ seasons = <<>>
    /\ seriesCall = "none"
    /\ pyName = <<>>
    /\ pyResult = NoResult
    /\ pyCall = "none"
    /\ metaDir = {}
    /\ posterDir = {}
    /\ cacheTrace = <<>>
    /\ folders = <<>>
    /\ objs = <<>>
    /\ video_items = <<>>
    /\ ioLog = {}
    /\ uiError = FALSE
    /\ searchText = <<>>
    /\ genreCombo = {0}
    /\ genreSel = 0
    /\ scanned = FALSE
    /\ config = [positions |-> {}, last_watched |-> "none"]
    /\ configFile = config
    /\ player = NoPlayer
    /\ videos = <<>>
    /\ listCall = "none"
    /\ boot = Booted
    /\ race = NoRace

\* SeriesViewerWindow.populate_episodes: parse_series_folder(root_folder)
PopulateEpisodes ==
    /\ seriesCall = "none"
    /\ seasons' = parse_series_folder(SeriesFolderPath, dirExists, dirEntries,
                                      SeriesDefaultExts)
    /\ seriesCall' = "done"
    /\ UNCHANGED <<dirExists, dirEntries, parseVars, cacheVars, libVars, playerVars, bootVars, listVars, raceVars>>

NextSeries == PopulateEpisodes

SpecSeries == InitSeries /\ [][NextSeries]_vars

(***************************************************************************)
(* clean_filename: the title handed to the remote search                   *)
(***************************************************************************)
\* \w: letters, digits and the underscore
IsWordChar(c) ==
    \/ IsDigit(c)
    \/ c = "_"
    \/ \E i \in 1..Len(UpperLetters) : c = UpperLetters[i] \/ c = LowerLetters[i]

WordAt(s, i) == i >= 1 /\ i <= Len(s) /\ IsWordChar(s[i])

\* \b between the characters i-1 and i
BoundaryAt(s, i) == WordAt(s, i - 1) # WordAt(s, i)

\* str.replace(old, " ") for the one-character strings "." and "_"
ReplaceDotsUnderscores(s) ==
    SubSeq([i \in 1..Len(s) |-> IF s[i] \in {".", "_"} THEN " " ELSE s[i]], 1, Len(s))

\* length of the match of \b(19|20)\d{2}\b at position i, 0 when none
YearAt(s, i) ==
    IF /\ i + 3 <= Len(s)
       /\ BoundaryAt(s, i)
       /\ SubSeq(s, i, i + 1) \in {<<"1", "9">>, <<"2", "0">>}
       /\ IsDigit(s[i + 2]) /\ IsDigit(s[i + 3])
       /\ BoundaryAt(s, i + 4)
    THEN 4 ELSE 0

\* the alternatives of the tag pattern, in order, in lower case
QualityTags ==
    <<<<"7", "2", "0", "p">>, <<"1", "0", "8", "0", "p">>, <<"2", "1", "6", "0", "p">>,
      <<"4", "8", "0", "p">>, <<"h", "d", "r">>, <<"b", "l", "u", "r", "a", "y">>,
      <<"w", "e", "b", "r", "i", "p">>, <<"x", "2", "6", "4">>,
      <<"h", ".", "2", "6", "4">>, <<"h", "2", "6", "4">>>>

TagMatches(s, i, tag) ==
    /\ i + Len(tag) - 1 <= Len(s)
    /\ Lower(SubSeq(s, i, i + Len(tag) - 1)) = tag
    /\ BoundaryAt(s, i + Len(tag))

\* length of the match of the tag pattern at position i, 0 when none
TagAt(s, i) ==
    IF BoundaryAt(s, i) /\ \E k \in 1..Len(QualityTags) : TagMatches(s, i, QualityTags[k])
    THEN Len(QualityTags[CHOOSE k \in 1..Len(QualityTags) :
                /\ TagMatches(s, i, QualityTags[k])
                /\ \A j \in 1..(k - 1) : ~TagMatches(s, i, QualityTags[j])])
    ELSE 0

\* re.sub(year pattern, '', s) from position i on
RECURSIVE StripYears(_, _)
StripYears(s, i) ==
    IF i > Len(s) THEN <<>>
    ELSE IF YearAt(s, i) > 0 THEN StripYears(s, i + YearAt(s, i))
    ELSE <<s[i]>> \o StripYears(s, i + 1)

\* re.sub(tag pattern, '', s, flags=re.IGNORECASE) from position i on
RECURSIVE StripTags(_, _)
StripTags(s, i) ==
    IF i > Len(s) THEN <<>>
    ELSE IF TagAt(s, i) > 0 THEN StripTags(s, i + TagAt(s, i))
    ELSE <<s[i]>> \o StripTags(s, i + 1)

\* re.sub(r'\s+', ' ', s) from position i on
RECURSIVE CollapseSpaces(_, _)
CollapseSpaces(s, i) ==
    IF i > Len(s) THEN <<>>
    ELSE IF IsSpace(s[i]) THEN <<" ">> \o CollapseSpaces(s, SkipSpace(s, i))
    ELSE <<s[i]>> \o CollapseSpaces(s, i + 1)

\* the cleaning with "." and "_" replaced after the years and tags are gone
clean_filename_replace_last(filename) ==
    LET noYear == StripYears(SplitextStem(filename), 1)
        noTags == StripTags(noYear, 1)
    IN Strip(CollapseSpaces(ReplaceDotsUnderscores(noTags), 1))

clean_filename(filename) ==
    LET name == ReplaceDotsUnderscores(SplitextStem(filename))
        noYear == StripYears(name, 1)
        noTags == StripTags(noYear, 1)
    IN Strip(CollapseSpaces(noTags, 1))

(***************************************************************************)
(* Python values and JSON text                                             *)
(*                                                                         *)
(* A scalar is [kind, s, n]; a value stored in a dict or held by an entry  *)
(* is [kind, s, n, items] (items: the scalars of a list); a value read     *)
(* from a file is [kind, s, n, items, keys, vals] (keys, vals: the members *)
(* of a dict, in order).  JSON text is a sequence of tokens [k, s, n].     *)
(***************************************************************************)
PStr(s) == [kind |-> "str", s |-> s, n |-> 0]
PInt(n) == [kind |-> "int", s |-> <<>>, n |-> n]

FStr(s) == [kind |-> "str", s |-> s, n |-> 0, items |-> <<>>]
FInt(n) == [kind |-> "int", s |-> <<>>, n |-> n, items |-> <<>>]
FList(items) == [kind |-> "list", s |-> <<>>, n |-> 0, items |-> items]
FNone == [kind |-> "none", s |-> <<>>, n |-> 0, items |-> <<>>]
FOfScalar(x) == [kind |-> x.kind, s |-> x.s, n |-> x.n, items |-> <<>>]

VOf(f) == [kind |-> f.kind, s |-> f.s, n |-> f.n, items |-> f.items,
           keys |-> <<>>, vals |-> <<>>]
VDict(keys, vals) == [kind |-> "dict", s |-> <<>>, n |-> 0, items |-> <<>>,
                      keys |-> keys, vals |-> vals]
VNone == VOf(FNone)

\* bool(v): None, 0, "", [] and {} are false
Truthy(v) ==
    CASE v.kind = "none" -> FALSE
      [] v.kind = "int" -> v.n # 0
      [] v.kind = "str" -> v.s # <<>>
      [] v.kind = "list" -> v.items # <<>>
      [] v.kind = "dict" -> v.keys # <<>>

\* dict.get(key, default): the last member of that name wins
DictGet(d, key, default) ==
    LET I == {i \in 1..Len(d.keys) : d.keys[i] = key} IN
    IF I = {} THEN default ELSE d.vals[CHOOSE i \in I : \A j \in I : j <= i]

\* str(x)
PyStr(f) ==
    CASE f.kind = "str" -> f.s
      [] f.kind = "int" -> IntToStr(f.n)
      [] f.kind = "none" -> <<"N", "o", "n", "e">>
      [] f.kind = "list" -> <<"[", "]">>

\* int(x) of a string: blanks around it are dropped, then an optional sign
\* and at least one digit are read
IntBody(str) ==
    LET t == Strip(str) IN
    IF t # <<>> /\ t[1] \in {"+", "-"} THEN Tail(t) ELSE t

IntOk(x) ==
    \/ x.kind = "int"
    \/ /\ x.kind = "str"
       /\ IntBody(x.s) # <<>>
       /\ \A i \in 1..Len(IntBody(x.s)) : IsDigit(IntBody(x.s)[i])

PyInt(x) ==
    IF x.kind = "int" THEN x.n
    ELSE IF Strip(x.s)[1] = "-" THEN 0 - DigitsToInt(IntBody(x.s))
    ELSE DigitsToInt(IntBody(x.s))


KeyTitle == <<"t", "i", "t", "l", "e">>
KeyOverview == <<"o", "v", "e", "r", "v", "i", "e", "w">>
KeyGenres == <<"g", "e", "n", "r", "e", "s">>

\* json.dump of a list of scalars
RECURSIVE DumpItems(_)
DumpItems(items) ==
    IF items = <<>> THEN <<>>
    ELSE IF Len(items) = 1 THEN <<[k |-> items[1].kind, s |-> items[1].s, n |-> items[1].n]>>
    ELSE DumpItems(SubSeq(items, 1, Len(items) - 1))
            \o <<TPunct(","), [k |-> items[Len(items)].kind, s |-> items[Len(items)].s,
                              n |-> items[Len(items)].n]>>

DumpValue(f) ==
    IF f.kind = "list" THEN <<TPunct("[")>> \o DumpItems(f.items) \o <<TPunct("]")>>
    ELSE <<[k |-> f.kind, s |-> f.s, n |-> f.n]>>

RECURSIVE DumpMembers(_, _)
DumpMembers(keys, vals) ==
    IF keys = <<>> THEN <<>>
    ELSE (IF Len(keys) = 1 THEN <<>>
          ELSE DumpMembers(SubSeq(keys, 1, Len(keys) - 1), SubSeq(vals, 1, Len(vals) - 1))
                  \o <<TPunct(",")>>)
         \o <<TStr(keys[Len(keys)]), TPunct(":")>> \o DumpValue(vals[Len(vals)])

\* json.dump(d, f) of a dict
json_dump(d) == <<TPunct("{")>> \o DumpMembers(d.keys, d.vals) \o <<TPunct("}")>>

Tok(t, i) == IF i >= 1 /\ i <= Len(t) THEN t[i] ELSE TEnd

IsScalarTok(x) == x.k \in {"str", "int"}

ParseFail == [ok |-> FALSE, val |-> FNone, next |-> 0]

\* after an item of a list: "]" ends it, "," brings the next item
RECURSIVE ParseListTail(_, _, _)
ParseListTail(t, i, acc) ==
    IF Tok(t, i).k = "]" THEN [ok |-> TRUE, val |-> FList(acc), next |-> i + 1]
    ELSE IF Tok(t, i).k = "," /\ IsScalarTok(Tok(t, i + 1))
         THEN ParseListTail(t, i + 2,
                  Append(acc, [kind |-> t[i + 1].k, s |-> t[i + 1].s, n |-> t[i + 1].n]))
         ELSE ParseFail

\* a scalar or a list of scalars at position i
ParseValue(t, i) ==
    IF IsScalarTok(Tok(t, i))
    THEN [ok |-> TRUE,
          val |-> [kind |-> t[i].k, s |-> t[i].s, n |-> t[i].n, items |-> <<>>],
          next |-> i + 1]
    ELSE IF Tok(t, i).k = "["
         THEN IF Tok(t, i + 1).k = "]"
              THEN [ok |-> TRUE, val |-> FList(<<>>), next |-> i + 2]
              ELSE IF IsScalarTok(Tok(t, i + 1))
                   THEN ParseListTail(t, i + 2,
                            <<[kind |-> t[i + 1].k, s |-> t[i + 1].s, n |-> t[i + 1].n]>>)
                   ELSE ParseFail
         ELSE ParseFail

ParseObjFail == [ok |-> FALSE, keys |-> <<>>, vals |-> <<>>, next |-> 0]

\* the members of an object from position i on, after "{" or ","
RECURSIVE ParseMembers(_, _, _, _)
ParseMembers(t, i, keys, vals) ==
    IF Tok(t, i).k = "str" /\ Tok(t, i + 1).k = ":" /\ ParseValue(t, i + 2).ok
    THEN LET v == ParseValue(t, i + 2) IN
         IF Tok(t, v.next).k = "}"
         THEN [ok |-> TRUE, keys |-> Append(keys, t[i].s), vals |-> Append(vals, v.val),
               next |-> v.next + 1]
         ELSE IF Tok(t, v.next).k = ","
              THEN ParseMembers(t, v.next + 1, Append(keys, t[i].s), Append(vals, v.val))
              ELSE ParseObjFail
    ELSE ParseObjFail

\* json.load(f): [ok, val]; ok is FALSE where json raises JSONDecodeError
json_load(t) ==
    IF Tok(t, 1).k = "{"
    THEN IF Tok(t, 2).k = "}"
         THEN [ok |-> Len(t) = 2, val |-> VDict(<<>>, <<>>)]
         ELSE LET r == ParseMembers(t, 2, <<>>, <<>>) IN
              [ok |-> r.ok /\ r.next = Len(t) + 1, val |-> VDict(r.keys, r.vals)]
    ELSE LET r == ParseValue(t, 1) IN
         [ok |-> r.ok /\ r.next = Len(t) + 1, val |-> VOf(r.val)]

(***************************************************************************)
(* The metadata and poster cache                                           *)
(*                                                                         *)
(* A cache directory is a set of [key, data]: the file <key>.json or       *)
(* <key>.jpg and its content.                                              *)
(***************************************************************************)
\* os.path.join(DIR, f"{filename}.json") names a file of the directory itself
\* unless the key holds a path separator (the sub-directory does not exist)
PathInDir(key) == \A i \in 1..Len(key) : key[i] # "/"

FileExists(dir, key) == PathInDir(key) /\ \E f \in dir : f.key = key

FileData(dir, key) == (CHOOSE f \in dir : f.key = key).data

RemoveFile(dir, key) == {f \in dir : f.key # key}

WriteFile(dir, key, data) == RemoveFile(dir, key) \cup {[key |-> key, data |-> data]}

\* a mutant of get_cached_metadata: the unreadable file is left in place
get_cached_metadata_keep(dir, filename) ==
    IF FileExists(dir, filename) /\ json_load(FileData(dir, filename)).ok
    THEN [ret |-> json_load(FileData(dir, filename)).val, raised |-> "none", dir |-> dir]
    ELSE [ret |-> VNone, raised |-> "none", dir |-> dir]

\* get_cached_metadata: [ret, raised, dir] with the directory afterwards
get_cached_metadata(dir, filename) ==
    IF FileExists(dir, filename)
    THEN LET r == json_load(FileData(dir, filename)) IN
         IF r.ok
         THEN [ret |-> r.val, raised |-> "none", dir |-> dir]
         ELSE [ret |-> VNone, raised |-> "none", dir |-> RemoveFile(dir, filename)]
    ELSE [ret |-> VNone, raised |-> "none", dir |-> dir]

\* [int(g) for g in data.get("genres", [])]
SafeGenres(data) ==
    LET g == DictGet(data, KeyGenres, FList(<<>>)).items IN
    [i \in 1..Len(g) |-> PInt(PyInt(g[i]))]

\* the dict written as the caller gave it
SafeData_asgiven(data) == data

\* the safe_data dict of save_metadata
SafeData(data) ==
    VDict(<<KeyTitle, KeyOverview, KeyGenres>>,
          <<FStr(PyStr(DictGet(data, KeyTitle, FStr(<<>>)))),
            FStr(PyStr(DictGet(data, KeyOverview, FStr(<<>>)))),
            FList(SafeGenres(data))>>)

\* a mutant of save_metadata: the file is opened ahead of the coercion, so a
\* genre id that int() rejects leaves an empty file
save_metadata_openfirst(dir, filename, data) ==
    IF ~PathInDir(filename)
    THEN [raised |-> "OSError", dir |-> dir]
    ELSE IF \E i \in 1..Len(DictGet(data, KeyGenres, FList(<<>>)).items) :
                 ~IntOk(DictGet(data, KeyGenres, FList(<<>>)).items[i])
         THEN [raised |-> "ValueError", dir |-> WriteFile(dir, filename, <<>>)]
         ELSE [raised |-> "none", dir |-> WriteFile(dir, filename, json_dump(SafeData(data)))]

\* save_metadata: [raised, dir]; int() fails before the file is opened, and
\* open() fails when the path is not a file of the directory
save_metadata(dir, filename, data) ==
    IF \E i \in 1..Len(DictGet(data, KeyGenres, FList(<<>>)).items) :
            ~IntOk(DictGet(data, KeyGenres, FList(<<>>)).items[i])
    THEN [raised |-> "ValueError", dir |-> dir]
    ELSE IF ~PathInDir(filename)
         THEN [raised |-> "OSError", dir |-> dir]
         ELSE [raised |-> "none", dir |-> WriteFile(dir, filename, json_dump(SafeData(data)))]

(***************************************************************************)
(* Library entries: VideoItem and SeriesItem                               *)
(*                                                                         *)
(* An entry is [type, path, filename, title, overview, genres,             *)
(* poster_path, thread, emits]; thread is the state of its fetch thread    *)
(* and emits counts the updated signals it has emitted.  The log records   *)
(* every cache access and remote query as [obj, op, key].                  *)
(***************************************************************************)
DefaultOverview ==
    <<"N", "o", " ", "d", "e", "s", "c", "r", "i", "p", "t", "i", "o", "n", " ",
      "a", "v", "a", "i", "l", "a", "b", "l", "e", ".">>

\* os.path.join(POSTER_DIR, f"{filename}.jpg")
PosterPath(key) ==
    <<".", "c", "a", "c", "h", "e", "/", "p", "o", "s", "t", "e", "r", "s", "/">>
        \o key \o <<".", "j", "p", "g">>

\* get_cached_poster: the path of the poster file when it exists
get_cached_poster(dir, filename) ==
    IF FileExists(dir, filename) THEN FStr(PosterPath(filename)) ELSE FNone

\* download_poster: the download or the write may fail, which gives None
download_poster(dir, poster_ref, filename, fetched) ==
    IF fetched /\ PathInDir(filename)
    THEN [ret |-> FStr(PosterPath(filename)), dir |-> WriteFile(dir, filename, poster_ref)]
    ELSE [ret |-> FNone, dir |-> dir]

LogEntry(id, op, key) == [obj |-> id, op |-> op, key |-> key]

\* the fields both constructors set before they read the cache
NewEntry(type, path, filename, title) ==
    [type |-> type, path |-> path, filename |-> filename, title |-> FStr(title),
     overview |-> FStr(DefaultOverview), genres |-> FList(<<>>), poster_path |-> FNone,
     thread |-> "none", emits |-> 0]

\* the cache reads of both constructors
CacheReads(id, key) == {LogEntry(id, "get_meta", key), LogEntry(id, "get_poster", key)}

\* the fields a cached record m and a cached poster overwrite, and the start
\* of the fetch thread
LoadedEntry(entry, m, poster) ==
    [entry EXCEPT !.title = IF Truthy(m) THEN DictGet(m, KeyTitle, @) ELSE @,
                  !.overview = IF Truthy(m) THEN DictGet(m, KeyOverview, @) ELSE @,
                  !.genres = IF Truthy(m) THEN DictGet(m, KeyGenres, FList(<<>>)) ELSE @,
                  !.poster_path = IF Truthy(poster) THEN poster ELSE @,
                  !.thread = "running"]

\* "Load cached data" of both constructors, r being what get_cached_metadata
\* gave; metadata.get raises AttributeError on a value that is no dict
LoadCachedFrom(id, entry, key, r, poster) ==
    IF Truthy(r.ret) /\ r.ret.kind # "dict"
    THEN [raised |-> "AttributeError", entry |-> entry, md |-> r.dir,
          log |-> CacheReads(id, key)]
    ELSE [raised |-> "none", entry |-> LoadedEntry(entry, r.ret, poster), md |-> r.dir,
          log |-> CacheReads(id, key)]

LoadCached(id, entry, key, md, pd) ==
    LoadCachedFrom(id, entry, key, get_cached_metadata(md, key), get_cached_poster(pd, key))

\* a mutant of VideoItemKey: the cache is keyed by the cleaned title
VideoItemKey_cleaned(path) == clean_filename(Basename(path))

\* self.filename of a VideoItem
VideoItemKey(path) == SplitextStem(Basename(path))

\* VideoItem.__init__
VideoItemInit(id, path, md, pd) ==
    LoadCached(id, NewEntry("video", path, VideoItemKey(path), Basename(path)),
               VideoItemKey(path), md, pd)

\* the key SeriesItem.__init__ reads the cache under: the folder name
SeriesItemKey(path) == Basename(path)

\* SeriesItem.__init__
SeriesItemInit(id, path, md, pd) ==
    LoadCached(id, NewEntry("series", path, <<>>, Basename(path)), SeriesItemKey(path),
               md, pd)

\* x or y
PyOr(x, y) == IF Truthy(x) THEN x ELSE y

\* the dict both fetches hand to save_metadata
EntryRecord(e) ==
    VDict(<<KeyTitle, KeyOverview, KeyGenres>>, <<e.title, e.overview, e.genres>>)

\* what a remote search may do: fail, find nothing, or find a first result
\* [title, overview, has_genre_ids, genre_ids, poster_path]
SearchRaised == [kind |-> "raise", title |-> FNone, overview |-> FNone,
                 has_genre_ids |-> FALSE, genre_ids |-> <<>>, poster_path |-> FNone]

SearchEmpty == [SearchRaised EXCEPT !.kind = "empty"]

Found(title, overview, has, ids, poster) ==
    [kind |-> "found", title |-> title, overview |-> overview, has_genre_ids |-> has,
     genre_ids |-> ids, poster_path |-> poster]

\* int(g) accepts every genre id of the result
GenreIdsOk(res) == \A i \in 1..Len(res.genre_ids) : IntOk(res.genre_ids[i])

\* [int(g) for g in movie.genre_ids]
IntIds(ids) == SubSeq([i \in 1..Len(ids) |-> PInt(PyInt(ids[i]))], 1, Len(ids))

\* the fields _fetch_online sets from the result; the genres stay when the
\* result has none or int() raises
VideoFetched(e, res) ==
    [e EXCEPT !.title = PyOr(res.title, @),
              !.overview = PyOr(res.overview, @),
              !.genres = IF res.has_genre_ids /\ GenreIdsOk(res)
                         THEN FList(IntIds(res.genre_ids)) ELSE @]

VideoSearchLog(id, e) == {LogEntry(id, "search", clean_filename(Basename(e.path)))}

\* _fetch_online from save_metadata on: e2 is the entry with its fields
\* set, sv what save_metadata did, dl what download_poster would do
VideoSaved(id, e2, res, sv, dl, pd) ==
    IF sv.raised # "none"
    THEN [entry |-> [e2 EXCEPT !.thread = "died"], md |-> sv.dir, pd |-> pd,
          log |-> {LogEntry(id, "save_meta", e2.filename)}]
    ELSE IF ~Truthy(e2.poster_path) /\ Truthy(res.poster_path)
    THEN [entry |-> [e2 EXCEPT !.poster_path = IF Truthy(dl.ret) THEN dl.ret ELSE @,
                               !.thread = "finished", !.emits = @ + 1],
          md |-> sv.dir, pd |-> dl.dir,
          log |-> {LogEntry(id, "save_meta", e2.filename),
                   LogEntry(id, "save_poster", e2.filename)}]
    ELSE [entry |-> [e2 EXCEPT !.thread = "finished", !.emits = @ + 1],
          md |-> sv.dir, pd |-> pd,
          log |-> {LogEntry(id, "save_meta", e2.filename)}]

\* VideoItem._fetch_online with movie=None: [entry, md, pd, log]; the search
\* catches its own errors, int() and save_metadata end the thread
VideoFetchOnline(id, e, res, fetched, md, pd) ==
    IF res.kind # "found"
    THEN [entry |-> [e EXCEPT !.thread = "finished"], md |-> md, pd |-> pd, log |-> {}]
    ELSE IF res.has_genre_ids /\ ~GenreIdsOk(res)
    THEN [entry |-> [VideoFetched(e, res) EXCEPT !.thread = "died"], md |-> md, pd |-> pd,
          log |-> {}]
    ELSE VideoSaved(id, VideoFetched(e, res), res,
                    save_metadata(md, e.filename, EntryRecord(VideoFetched(e, res))),
                    download_poster(pd, res.poster_path.s, e.filename, fetched), pd)

\* the fields fetch_metadata sets from the first result
SeriesFetched(e, res) ==
    [e EXCEPT !.title = PyOr(res.title, @),
              !.overview = PyOr(res.overview, @),
              !.genres = FList(res.genre_ids)]

SeriesSearchLog(id, e) == {LogEntry(id, "search", PyStr(e.title))}

\* the key SeriesItem.fetch_metadata writes under: self.title, which by then
\* holds the remote name when there is one (e: the entry before, e1: after)
SeriesSaveKey(e, e1) == PyStr(e1.title)

\* a mutant of SeriesSaved: the signal is emitted ahead of the write, so
\* also when the write raises
SeriesSaved_emitfirst(id, e1, key, res, sv, dl, pd) ==
    IF sv.raised # "none"
    THEN [entry |-> [e1 EXCEPT !.thread = "finished", !.emits = @ + 1], md |-> sv.dir,
          pd |-> pd, log |-> {LogEntry(id, "save_meta", key)}]
    ELSE [entry |-> [e1 EXCEPT !.poster_path = IF Truthy(res.poster_path) /\ Truthy(dl.ret)
                                               THEN dl.ret ELSE @,
                               !.thread = "finished", !.emits = @ + 1],
          md |-> sv.dir, pd |-> IF Truthy(res.poster_path) THEN dl.dir ELSE pd,
          log |-> {LogEntry(id, "save_meta", key)}
                    \cup (IF Truthy(res.poster_path)
                          THEN {LogEntry(id, "save_poster", key)} ELSE {})]

\* fetch_metadata from save_metadata on; every exception is caught and printed
SeriesSaved(id, e1, key, res, sv, dl, pd) ==
    IF sv.raised # "none"
    THEN [entry |-> [e1 EXCEPT !.thread = "finished"], md |-> sv.dir, pd |-> pd,
          log |-> {LogEntry(id, "save_meta", key)}]
    ELSE IF Truthy(res.poster_path)
    THEN [entry |-> [e1 EXCEPT !.poster_path = IF Truthy(dl.ret) THEN dl.ret ELSE @,
                               !.thread = "finished", !.emits = @ + 1],
          md |-> sv.dir, pd |-> dl.dir,
          log |-> {LogEntry(id, "save_meta", key), LogEntry(id, "save_poster", key)}]
    ELSE [entry |-> [e1 EXCEPT !.thread = "finished", !.emits = @ + 1],
          md |-> sv.dir, pd |-> pd,
          log |-> {LogEntry(id, "save_meta", key)}]

\* SeriesItem.fetch_metadata: [entry, md, pd, log]
SeriesFetchMetadata(id, e, res, fetched, md, pd) ==
    IF res.kind # "found"
    THEN [entry |-> [e EXCEPT !.thread = "finished"], md |-> md, pd |-> pd, log |-> {}]
    ELSE SeriesSaved(id, SeriesFetched(e, res), SeriesSaveKey(e, SeriesFetched(e, res)), res,
                     save_metadata(md, SeriesSaveKey(e, SeriesFetched(e, res)),
                                   EntryRecord(SeriesFetched(e, res))),
                     download_poster(pd, res.poster_path.s,
                                     SeriesSaveKey(e, SeriesFetched(e, res)), fetched),
                     pd)

(***************************************************************************)
(* The library scan (LibraryWindow.refresh_list) and the fetch threads     *)
(***************************************************************************)
\* a mutant of HasVideos: a child of any kind with a video name counts
HasVideos_anykind(children) ==
    \E i \in 1..Len(children) : HasExt(children[i].name, VIDEO_EXTS)

\* load_config(): the parsed file, {} for a missing file and for one that
\* json.load rejects
LoadedConfig(file, parsed) ==
    IF file.exists /\ parsed.ok THEN parsed.val ELSE VDict(<<>>, <<>>)

load_config(file) == LoadedConfig(file, json_load(file.data))

\* the keys of LibraryWindow.THEMES
THEMES ==
    {ThemeDark, <<"L", "i", "g", "h", "t">>, <<"N", "e", "t", "f", "l", "i", "x">>,
     <<"F", "u", "n">>}

KeyTheme == <<"t", "h", "e", "m", "e">>

\* self.config.get("theme", "Dark")
ConfiguredTheme(c) == DictGet(c, KeyTheme, FStr(ThemeDark))

\* apply_theme(self.current_theme): THEMES[theme_name] raises KeyError for
\* a name the table does not have, which ends the constructor of the window
\* and with it the program (phase "crashed", as distinct from the "aborted"
\* of the module-level key check)
apply_theme(b, v) ==
    IF v.kind = "str" /\ v.s \in THEMES
    THEN [b EXCEPT !.theme = v.s]
    ELSE [b EXCEPT !.phase = "crashed", !.error = "KeyError"]

\* the window once its constructor has applied the configured theme
Themed(b) == IF b.theme = <<>> THEN apply_theme(b, ConfiguredTheme(load_config(b.file))) ELSE b

\* any(f.is_file() and f.name.lower().endswith(VIDEO_EXTS) for f in scandir)
HasVideos(children) ==
    \E i \in 1..Len(children) : children[i].isFile /\ HasExt(children[i].name, VIDEO_EXTS)

\* the entries the scan loop constructs for the first n children of a folder
RECURSIVE FolderTargets(_, _)
FolderTargets(f, n) ==
    IF n = 0 THEN <<>>
    ELSE LET c == f.entries[n]
             before == FolderTargets(f, n - 1)
         IN IF c.isFile /\ HasExt(c.name, VIDEO_EXTS)
            THEN Append(before, [type |-> "video", path |-> EntryPath(f.path, c.name)])
            ELSE IF ~c.isFile /\ HasVideos(c.children)
                 THEN Append(before, [type |-> "series", path |-> EntryPath(f.path, c.name)])
                 ELSE before

\* over the first n configured folders; a folder that does not exist is skipped
RECURSIVE ScanTargets(_, _)
\* the scan with a missing folder ending the loop
ScanTargets_stop(fs, n) ==
    IF n = 0 THEN <<>>
    ELSE IF \E k \in 1..n : ~fs[k].exists
         THEN ScanTargets(fs, (CHOOSE k \in 1..n :
                                 ~fs[k].exists /\ \A j \in 1..(k - 1) : fs[j].exists) - 1)
         ELSE ScanTargets(fs, n - 1) \o FolderTargets(fs[n], Len(fs[n].entries))

ScanTargets(fs, n) ==
    IF n = 0 THEN <<>>
    ELSE ScanTargets(fs, n - 1)
            \o (IF fs[n].exists THEN FolderTargets(fs[n], Len(fs[n].entries)) ELSE <<>>)

\* one constructor has run: r is what it gave
Constructed(st, r) ==
    [objs |-> IF r.raised = "none" THEN Append(st.objs, r.entry) ELSE st.objs,
     items |-> IF r.raised = "none" THEN Append(st.items, Len(st.objs) + 1) ELSE st.items,
     md |-> r.md,
     log |-> st.log \cup r.log,
     raised |-> r.raised]

\* VideoItem(entry.path) or SeriesItem(entry.path), unless an earlier
\* constructor of the scan has raised
ConstructItem(st, target) ==
    IF st.raised # "none" THEN st
    ELSE Constructed(st, IF target.type = "video"
                         THEN VideoItemInit(Len(st.objs) + 1, target.path, st.md, posterDir)
                         ELSE SeriesItemInit(Len(st.objs) + 1, target.path, st.md, posterDir))

\* the constructors run in scan order; the first one that raises ends the scan
RECURSIVE Construct(_, _, _)
Construct(targets, n, st0) ==
    IF n = 0 THEN st0 ELSE ConstructItem(Construct(targets, n - 1, st0), targets[n])

\* needle in haystack, for strings
Contains(haystack, needle) ==
    \E i \in 1..(Len(haystack) + 1) :
        /\ i + Len(needle) - 1 <= Len(haystack)
        /\ SubSeq(haystack, i, i + Len(needle) - 1) = needle

\* [x for x in seq if keep(x)] for a sequence of identities
RECURSIVE FilterIds(_, _)
FilterIds(seq, keep) ==
    IF seq = <<>> THEN <<>>
    ELSE IF seq[1] \in keep THEN <<seq[1]>> \o FilterIds(Tail(seq), keep)
    ELSE FilterIds(Tail(seq), keep)

\* the ids of the genre table fetched at start-up (get_tmdb_genres); the
\* name of a genre is modelled by its id, and -1 stands for "Unknown"
KnownGenreIds == {12, 18, 28}

GenreName(g) == IF g.kind = "int" /\ g.n \in KnownGenreIds THEN g.n ELSE 0 - 1

\* what iterating over the genres of an entry gives: the items of a list,
\* the characters of a string
GenreItems(e) ==
    IF e.genres.kind = "list" THEN {e.genres.items[i] : i \in 1..Len(e.genres.items)}
    ELSE {PStr(<<e.genres.s[i]>>) : i \in 1..Len(e.genres.s)}

MaxObjs == 2

\* refresh_list with the search box holding text and the genre drop-down
\* showing selection.  An exception leaves the handler at the place it is
\* raised: a constructor or title.lower() before video_items is assigned, the
\* genre set update before the drop-down is rebuilt, the genre filter after.
\* No handler is modelled after an exception has escaped one (PyQt5 aborts
\* the application on an unhandled exception in a slot).
Scanned(text, selection, targets, st) ==
    LET ids == {st.items[i] : i \in 1..Len(st.items)}
        badTitle == \E id \in ids : st.objs[id].title.kind # "str"
        found == {id \in ids : Contains(Lower(st.objs[id].title.s), Lower(text))}
        badUpdate == \E id \in found : st.objs[id].genres.kind \notin {"list", "str"}
        combo == {0} \cup {GenreName(g) : g \in UNION {GenreItems(st.objs[id]) : id \in found}}
        sel == IF selection \in combo THEN selection ELSE 0
        badFilter == sel \in KnownGenreIds /\ \E id \in found : st.objs[id].genres.kind = "str"
        shown == IF sel \in KnownGenreIds
                 THEN {id \in found : PInt(sel) \in GenreItems(st.objs[id])}
                 ELSE found
    IN /\ boot.phase = "ready"
       /\ Themed(boot).phase = "ready"
       /\ boot' = Themed(boot)
       /\ scanned' = TRUE
       /\ ~uiError
       /\ Len(objs) + Len(targets) <= MaxObjs
       /\ objs' = st.objs
       /\ metaDir' = st.md
       /\ ioLog' = st.log
       /\ searchText' = text
       /\ IF st.raised # "none" \/ badTitle
          THEN /\ uiError' = TRUE
               /\ genreSel' = selection
               /\ UNCHANGED <<video_items, genreCombo>>
          ELSE IF badUpdate
          THEN /\ uiError' = TRUE
               /\ video_items' = FilterIds(st.items, found)
               /\ genreSel' = selection
               /\ UNCHANGED genreCombo
          ELSE IF badFilter
          THEN /\ uiError' = TRUE
               /\ video_items' = FilterIds(st.items, found)
               /\ genreCombo' = combo
               /\ genreSel' = sel
          ELSE /\ video_items' = FilterIds(st.items, shown)
               /\ genreCombo' = combo
               /\ genreSel' = sel
               /\ UNCHANGED uiError
       /\ UNCHANGED <<folders, posterDir, cacheTrace, parseVars, seriesVars, playerVars,
                       listVars, raceVars>>

ScanStart == [objs |-> objs, items |-> <<>>, md |-> metaDir, log |-> ioLog, raised |-> "none"]

Refresh(text, selection) ==
    Scanned(text, selection, ScanTargets(folders, Len(folders)),
            Construct(ScanTargets(folders, Len(folders)),
                      Len(ScanTargets(folders, Len(folders))), ScanStart))

\* refresh_list as add_folders calls it, and as the constructor of the
\* window of a started program calls it at its end
RefreshList == boot.theme # <<>> /\ Refresh(searchText, genreSel)

\* LibraryWindow.__init__: the widgets, apply_theme, then refresh_list; a
\* KeyError of apply_theme leaves the constructor before the scan
LibraryWindowInit ==
    /\ boot.phase = "ready"
    /\ boot.theme = <<>>
    /\ IF Themed(boot).phase = "ready"
       THEN Refresh(searchText, genreSel)
       ELSE /\ boot' = Themed(boot)
            /\ UNCHANGED <<parseVars, seriesVars, cacheVars, libVars, playerVars, listVars,
                           raceVars>>

SearchTexts == {<<>>, <<"S", "h", "o">>}

\* the user edits the search box: on_search_changed starts the single-shot
\* timer, whose timeout runs refresh_list
OnSearchChanged ==
    \E t \in SearchTexts : boot.theme # <<>> /\ t # searchText /\ Refresh(t, genreSel)

\* the user picks an entry of the genre drop-down, whose currentTextChanged
\* signal runs refresh_list
GenreComboChanged ==
    \E g \in genreCombo : boot.theme # <<>> /\ g # genreSel /\ Refresh(searchText, g)

\* what the remote movie search may answer
MovieResults ==
    {SearchRaised, SearchEmpty,
     Found(FStr(<<"M", "o", "v", "i", "e">>), FStr(<<"O", "v">>), TRUE,
           <<PInt(28), PInt(12)>>, FStr(<<"/", "p">>)),
     Found(FNone, FNone, FALSE, <<>>, FNone)}

\* what the remote TV search may answer
TVResults ==
    {SearchRaised, SearchEmpty,
     Found(FStr(<<"S", "h", "o", "w">>), FStr(<<"O", "v">>), TRUE, <<PInt(18)>>,
           FStr(<<"/", "q">>)),
     Found(FStr(<<"S", "h", "o", "w", " ", "U", "S">>), FNone, TRUE, <<PInt(18)>>, FNone),
     Found(FStr(<<"A", "/", "B">>), FStr(<<"O", "v">>), FALSE, <<>>, FStr(<<"/", "q">>))}

\* whether the poster download succeeds, where a result offers a poster
Downloads(res) == IF Truthy(res.poster_path) THEN BOOLEAN ELSE {FALSE}

\* a mutant of ThreadRan: the finished fetch also appends its entry to the
\* list of the window
ThreadRan_relist(id, search, r) ==
    /\ objs' = [objs EXCEPT ![id] = r.entry]
    /\ metaDir' = r.md
    /\ posterDir' = r.pd
    /\ ioLog' = ioLog \cup search \cup r.log
    /\ video_items' = Append(video_items, id)
    /\ UNCHANGED <<folders, uiError, searchText, genreCombo, genreSel, scanned,
                   cacheTrace, parseVars, seriesVars, playerVars, bootVars, listVars, raceVars>>

\* a fetch thread has run: r is what it did, search what it asked
ThreadRan(id, search, r) ==
    /\ objs' = [objs EXCEPT ![id] = r.entry]
    /\ metaDir' = r.md
    /\ posterDir' = r.pd
    /\ ioLog' = ioLog \cup search \cup r.log
    /\ UNCHANGED <<folders, video_items, uiError, searchText, genreCombo, genreSel, scanned,
                   cacheTrace, parseVars, seriesVars, playerVars, bootVars, listVars, raceVars>>

\* the thread of a VideoItem runs _fetch_online
FetchOnline ==
    \E id \in 1..Len(objs), res \in MovieResults :
      \E fetched \in Downloads(res) :
        /\ ~uiError
        /\ objs[id].type = "video"
        /\ objs[id].thread = "running"
        /\ ThreadRan(id, VideoSearchLog(id, objs[id]),
                     VideoFetchOnline(id, objs[id], res, fetched, metaDir, posterDir))

\* the thread of a SeriesItem runs fetch_metadata
FetchMetadata ==
    \E id \in 1..Len(objs), res \in TVResults :
      \E fetched \in Downloads(res) :
        /\ ~uiError
        /\ objs[id].type = "series"
        /\ objs[id].thread = "running"
        /\ ThreadRan(id, SeriesSearchLog(id, objs[id]),
                     SeriesFetchMetadata(id, objs[id], res, fetched, metaDir, posterDir))

\* what the disk may hold under a configured folder
File(name) == [name |-> name, isFile |-> TRUE, children |-> <<>>]

Dir(name, children) == [name |-> name, isFile |-> FALSE, children |-> children]

NameMovie == <<"M", "o", "v", "i", "e", ".", "2", "0", "2", "1", ".", "m", "k", "v">>
NameMovieUpper == <<"M", "o", "v", "i", "e", ".", "2", "0", "2", "1", ".", "M", "P", "4">>
NameNotes == <<"n", "o", "t", "e", "s", ".", "t", "x", "t">>
NameShow == <<"S", "h", "o", "w">>
NameDocs == <<"D", "o", "c", "s">>
NameEpisode == <<"S", "0", "1", "E", "0", "1", " ", "-", " ", "A", ".", "m", "k", "v">>

\* a video in upper case, a file that is no video, a folder with an episode,
\* and a folder whose only video-named child is a directory
DiskChildren ==
    <<File(NameMovieUpper),
      Dir(NameShow, <<File(NameNotes), File(NameEpisode)>>),
      File(NameNotes),
      Dir(NameDocs, <<File(NameNotes), Dir(NameMovie, <<>>)>>)>>

\* those of the first n DiskChildren whose index is in S, in that order
RECURSIVE ChildrenAt(_, _)
ChildrenAt(S, n) ==
    IF n = 0 THEN <<>>
    ELSE ChildrenAt(S, n - 1) \o (IF n \in S THEN <<DiskChildren[n]>> ELSE <<>>)

MaxChildren == 2

FolderM == <<"/", "m">>
FolderN == <<"/", "n">>

\* one folder exists and holds up to MaxChildren children; the other comes
\* after it and is missing or holds one video, or comes first and is missing
FolderSets ==
    {<<[path |-> FolderM, exists |-> TRUE, entries |-> ChildrenAt(S, Len(DiskChildren))], n>> :
        S \in {T \in SUBSET (1..Len(DiskChildren)) : Cardinality(T) <= MaxChildren},
        n \in {[path |-> FolderN, exists |-> FALSE, entries |-> <<>>],
               [path |-> FolderN, exists |-> TRUE, entries |-> <<File(NameMovie)>>]}}
      \cup
    {<<[path |-> FolderN, exists |-> FALSE, entries |-> <<>>],
       [path |-> FolderM, exists |-> TRUE, entries |-> ChildrenAt(S, Len(DiskChildren))]>> :
        S \in {T \in SUBSET (1..Len(DiskChildren)) : Cardinality(T) <= MaxChildren}}

\* the metadata cache at start-up: empty, or holding the record that the
\* fetch of an earlier run wrote for the folder Show
EarlierRun ==
    {{},
     {[key |-> NameShow,
       data |-> json_dump(SafeData(VDict(<<KeyTitle, KeyOverview, KeyGenres>>,
                                         <<FStr(NameShow), FStr(<<"O", "v">>),
                                           FList(<<PInt(18)>>)>>)))]}}

\* the state the constructor of the window finds
InitLib ==
    /\ folders \in FolderSets
    /\ objs = <<>>
    /\ video_items = <<>>
    /\ ioLog = {}
    /\ uiError = FALSE
    /\ searchText = <<>>
    /\ genreCombo = {0}
    /\ genreSel = 0
    /\ scanned = FALSE
    /\ metaDir \in EarlierRun
    /\ posterDir = {}
    /\ cacheTrace = <<>>
    /\ pyName = <<>>
    /\ pyResult = NoResult
    /\ pyCall = "none"
    /\ dirExists = FALSE
    /\ dirEntries = <<>>
    /\ seasons = <<>>
    /\ seriesCall = "none"
    /\ config = [positions |-> {}, last_watched |-> "none"]
    /\ configFile = config
    /\ player = NoPlayer
    /\ videos = <<>>
    /\ listCall = "none"
    /\ boot = Booted
    /\ race = NoRace

NextLib == RefreshList \/ OnSearchChanged \/ GenreComboChanged \/ FetchOnline \/ FetchMetadata

SpecLib == InitLib /\ [][NextLib]_vars

(***************************************************************************)
(* list_videos_in_dirs, and the harness that calls it on the configured    *)
(* folders next to the scan                                                *)
(***************************************************************************)
\* the video_exts of list_videos_in_dirs
ListVideoExts ==
    {<<".", "m", "p", "4">>, <<".", "m", "k", "v">>, <<".", "a", "v", "i">>,
     <<".", "m", "o", "v">>, <<".", "w", "m", "v">>, <<".", "f", "l", "v">>}

\* os.path.splitext(name)[1].lower() in video_exts
IsListedVideo(name) == Lower(SplitextExt(name)) \in ListVideoExts

\* the files of one directory that are videos, over its first n children
RECURSIVE ListedFiles(_, _, _)
ListedFiles(root, children, n) ==
    IF n = 0 THEN <<>>
    ELSE ListedFiles(root, children, n - 1)
            \o (IF children[n].isFile /\ IsListedVideo(children[n].name)
                THEN <<EntryPath(root, children[n].name)>> ELSE <<>>)

\* os.walk(folder), top down: the files of root, then each sub-directory
RECURSIVE Walk(_, _)
RECURSIVE WalkDirs(_, _, _)
WalkDirs(root, children, n) ==
    IF n = 0 THEN <<>>
    ELSE WalkDirs(root, children, n - 1)
            \o (IF children[n].isFile THEN <<>>
                ELSE Walk(EntryPath(root, children[n].name), children[n].children))

Walk(root, children) ==
    ListedFiles(root, children, Len(children)) \o WalkDirs(root, children, Len(children))

\* list_videos_in_dirs over the first n folders
RECURSIVE list_videos_in_dirs(_, _, _)
list_videos_in_dirs(fs, recursive, n) ==
    IF n = 0 THEN <<>>
    ELSE list_videos_in_dirs(fs, recursive, n - 1)
            \o (IF ~fs[n].exists THEN <<>>
                ELSE IF recursive THEN Walk(fs[n].path, fs[n].entries)
                ELSE ListedFiles(fs[n].path, fs[n].entries, Len(fs[n].entries)))

\* videos = list_videos_in_dirs(folders, recursive)
CallListVideos ==
    /\ listCall = "none"
    /\ \E recursive \in BOOLEAN :
          /\ videos' = list_videos_in_dirs(folders, recursive, Len(folders))
          /\ listCall' = IF recursive THEN "recursive" ELSE "top"
    /\ UNCHANGED <<parseVars, seriesVars, cacheVars, libVars, playerVars, bootVars, raceVars>>

NextList == RefreshList \/ CallListVideos

SpecList == InitLib /\ [][NextList]_vars

(***************************************************************************)
(* Start-up: the module-level statements from load_config to os.makedirs,  *)
(* then the window of the library                                          *)
(***************************************************************************)
\* a theme name that LibraryWindow.THEMES does not have
ThemeBlue == <<"B", "l", "u", "e">>

\* what config.json may be when the program starts: missing, cut short,
\* an object without the key, with an empty key, with a key and a theme of
\* the table, with a key and another theme, or a list
ConfigFiles ==
    {[exists |-> FALSE, data |-> <<>>],
     [exists |-> TRUE, data |-> <<TPunct("{"), TStr(KeyApi), TPunct(":")>>],
     [exists |-> TRUE, data |-> <<TPunct("{"), TPunct("}")>>],
     [exists |-> TRUE,
      data |-> <<TPunct("{"), TStr(KeyTheme), TPunct(":"), TStr(ThemeDark), TPunct("}")>>],
     [exists |-> TRUE,
      data |-> <<TPunct("{"), TStr(KeyApi), TPunct(":"), TStr(<<>>), TPunct("}")>>],
     [exists |-> TRUE,
      data |-> <<TPunct("{"), TStr(KeyTheme), TPunct(":"), TStr(ThemeDark), TPunct(","),
                 TStr(KeyApi), TPunct(":"), TStr(<<"k">>), TPunct("}")>>],
     [exists |-> TRUE,
      data |-> <<TPunct("{"), TStr(KeyTheme), TPunct(":"), TStr(ThemeBlue), TPunct(","),
                 TStr(KeyApi), TPunct(":"), TStr(<<"k">>), TPunct("}")>>],
     [exists |-> TRUE, data |-> <<TPunct("["), TPunct("]")>>]}

\* the start-up with the directories made ahead of the key check
StartedWith_dirsfirst(b, c) ==
    IF c.kind # "dict"
    THEN [b EXCEPT !.phase = "aborted", !.error = "AttributeError", !.makedirs = TRUE]
    ELSE IF ~Truthy(DictGet(c, KeyApi, FStr(<<>>)))
         THEN [b EXCEPT !.phase = "aborted", !.error = "ValueError", !.makedirs = TRUE]
         ELSE [b EXCEPT !.phase = "ready", !.makedirs = TRUE]

\* lines 34-47 on the loaded configuration: config.get on a value that is
\* not a dict raises AttributeError, a false key raises ValueError, and
\* only then are the cache directories made
StartedWith(b, c) ==
    IF c.kind # "dict"
    THEN [b EXCEPT !.phase = "aborted", !.error = "AttributeError"]
    ELSE IF ~Truthy(DictGet(c, KeyApi, FStr(<<>>)))
         THEN [b EXCEPT !.phase = "aborted", !.error = "ValueError"]
         ELSE [b EXCEPT !.phase = "ready", !.makedirs = TRUE]

\* the module is run
ModuleStart ==
    /\ boot.phase = "start"
    /\ boot' = StartedWith(boot, load_config(boot.file))
    /\ UNCHANGED <<parseVars, seriesVars, cacheVars, libVars, playerVars, listVars, raceVars>>

\* the program before its first statement
InitBoot ==
    /\ boot \in {[file |-> f, phase |-> "start", error |-> "none", makedirs |-> FALSE,
                  theme |-> <<>>] : f \in ConfigFiles}
    /\ folders \in FolderSets
    /\ objs = <<>>
    /\ video_items = <<>>
    /\ ioLog = {}
    /\ uiError = FALSE
    /\ searchText = <<>>
    /\ genreCombo = {0}
    /\ genreSel = 0
    /\ scanned = FALSE
    /\ metaDir \in EarlierRun
    /\ posterDir = {}
    /\ cacheTrace = <<>>
    /\ pyName = <<>>
    /\ pyResult = NoResult
    /\ pyCall = "none"
    /\ dirExists = FALSE
    /\ dirEntries = <<>>
    /\ seasons = <<>>
    /\ seriesCall = "none"
    /\ config = [positions |-> {}, last_watched |-> "none"]
    /\ configFile = config
    /\ player = NoPlayer
    /\ videos = <<>>
    /\ listCall = "none"
    /\ race = NoRace

NextBoot ==
    ModuleStart \/ LibraryWindowInit \/ RefreshList \/ OnSearchChanged \/ GenreComboChanged \/ FetchOnline
        \/ FetchMetadata

SpecBoot == InitBoot /\ [][NextBoot]_vars

(***************************************************************************)
(* Cache harness: calls of save_metadata and get_cached_metadata, one      *)
(* after the other, on a directory that may hold a file of any content     *)
(***************************************************************************)
KeyPoster == <<"p", "o", "s", "t", "e", "r", "_", "p", "a", "t", "h">>

\* the dict a caller hands to save_metadata
Record(title, overview, genres) ==
    VDict(<<KeyTitle, KeyOverview, KeyGenres>>, <<FStr(title), FStr(overview), FList(genres)>>)

RecordWithPoster(title, overview, genres) ==
    VDict(<<KeyTitle, KeyOverview, KeyGenres, KeyPoster>>,
          <<FStr(title), FStr(overview), FList(genres), FStr(<<"/", "p", ".", "j", "p", "g">>)>>)

MaxGenres == 2

\* genre ids as the remote API or a caller may give them
BadGenreIds == {PStr(<<"x">>), PStr(<<>>)}

\* genre id lists of up to MaxGenres ids: every id type at every position
GenreCycle == <<PInt(28), PStr(<<"1", "2">>), PStr(<<" ", "-", "0", "7">>)>>

GenreLists ==
    {[i \in 1..n |-> GenreCycle[((i + r) % 3) + 1]] : n \in 0..MaxGenres, r \in 0..2}

TitleT == <<"T", "o", "p">>
OverviewO == <<"O", " ", "k">>

\* records every genre id of which int() accepts
GoodRecords ==
    {Record(TitleT, OverviewO, g) : g \in GenreLists}
        \cup {RecordWithPoster(<<>>, OverviewO, <<PStr(<<"1", "2">>), PInt(28)>>)}

\* records with a genre id int() rejects
BadRecords == {Record(TitleT, OverviewO, <<PInt(28), b>>) : b \in BadGenreIds}

KeyM == <<"M", "o", "v">>
KeySlash == <<"A", "C", "/", "D", "C">>

CacheKeys == {KeyM, KeySlash}

ValidContent == json_dump(SafeData(Record(<<"O", "l", "d">>, OverviewO, <<PInt(18)>>)))

\* file contents json.load rejects: empty, cut short, garbage, trailing data
CorruptContents ==
    {<<>>,
     <<TPunct("{")>>,
     SubSeq(ValidContent, 1, 4),
     SubSeq(ValidContent, 1, Len(ValidContent) - 1),
     <<TPunct("bad")>>,
     ValidContent \o <<TPunct("}")>>,
     <<TPunct("["), TInt(1), TPunct(",")>>}

\* file contents json.load accepts that are no record
NonRecordContents ==
    {<<TPunct("["), TInt(1), TPunct("]")>>,
     <<TStr(<<"a", "b", "c">>)>>,
     <<TInt(5)>>,
     <<TPunct("["), TPunct("]")>>,
     <<TPunct("{"), TPunct("}")>>,
     <<TInt(0)>>}

AnyContents == CorruptContents \cup NonRecordContents \cup {ValidContent}

Stat(dir, key) ==
    IF FileExists(dir, key) THEN [exists |-> TRUE, data |-> FileData(dir, key)]
    ELSE [exists |-> FALSE, data |-> <<>>]

InitCache ==
    /\ metaDir \in {{}} \cup {{[key |-> KeyM, data |-> c]} : c \in AnyContents}
    /\ posterDir = {}
    /\ cacheTrace = <<>>
    /\ folders = <<>>
    /\ objs = <<>>
    /\ video_items = <<>>
    /\ ioLog = {}
    /\ uiError = FALSE
    /\ searchText = <<>>
    /\ genreCombo = {0}
    /\ genreSel = 0
    /\ scanned = FALSE
    /\ pyName = <<>>
    /\ pyResult = NoResult
    /\ pyCall = "none"
    /\ dirExists = FALSE
    /\ dirEntries = <<>>
    /\ seasons = <<>>
    /\ seriesCall = "none"
    /\ config = [positions |-> {}, last_watched |-> "none"]
    /\ configFile = config
    /\ player = NoPlayer
    /\ videos = <<>>
    /\ listCall = "none"
    /\ boot = Booted
    /\ race = NoRace

CallSaveMetadata ==
    /\ Len(cacheTrace) < 2
    /\ \E key \in CacheKeys, data \in GoodRecords \cup BadRecords :
          LET r == save_metadata(metaDir, key, data) IN
          /\ metaDir' = r.dir
          /\ cacheTrace' = Append(cacheTrace,
                [op |-> "save", key |-> key, data |-> data, ret |-> VNone,
                 raised |-> r.raised, before |-> Stat(metaDir, key),
                 after |-> Stat(r.dir, key)])
    /\ UNCHANGED <<posterDir, parseVars, seriesVars, libVars, playerVars, bootVars, listVars, raceVars>>

CallGetCachedMetadata ==
    /\ Len(cacheTrace) < 2
    /\ \E key \in CacheKeys :
          LET r == get_cached_metadata(metaDir, key) IN
          /\ metaDir' = r.dir
          /\ cacheTrace' = Append(cacheTrace,
                [op |-> "get", key |-> key, data |-> VNone, ret |-> r.ret,
                 raised |-> r.raised, before |-> Stat(metaDir, key),
                 after |-> Stat(r.dir, key)])
    /\ UNCHANGED <<posterDir, parseVars, seriesVars, libVars, playerVars, bootVars, listVars, raceVars>>

NextCache == CallSaveMetadata \/ CallGetCachedMetadata

SpecCache == InitCache /\ [][NextCache]_vars

(***************************************************************************)
(* One metadata file under threads: save_metadata in fetch threads and     *)
(* get_cached_metadata on the UI thread, step by step                      *)
(*                                                                         *)
(* race.link is the inode the path names (0: no file), race.inodes the     *)
(* content of each inode.  A writer is [pc, data, ino]: it opens the file  *)
(* for writing, which creates or truncates it, and the buffered text goes  *)
(* to the file in one write at offset 0 when the with block closes it.     *)
(* The reader is [pc, ret, raised].                                        *)
(***************************************************************************)
RaceLong == json_dump(SafeData(Record(TitleT, OverviewO, <<PInt(28), PInt(12)>>)))
RaceShort == json_dump(SafeData(Record(<<"N", "e", "w">>, OverviewO, <<>>)))

RaceTexts == {RaceLong, RaceShort}

Writer(data) == [pc |-> "start", data |-> data, ino |-> 0]

\* the threads of a run: one or two writers, with or without a reader
RaceWriters == {<<Writer(a)>> : a \in RaceTexts} \cup {<<Writer(a), Writer(b)>> : a, b \in RaceTexts}

InitRace ==
    /\ race \in {[platform |-> p, link |-> IF old = <<>> THEN 0 ELSE 1, inodes |-> old,
                  writers |-> ws, reader |-> [NoReader EXCEPT !.pc = r]] :
                    p \in {"posix", "windows"}, old \in {<<>>, <<ValidContent>>},
                    ws \in RaceWriters, r \in {"none", "start"}}
    /\ pyName = <<>>
    /\ pyResult = NoResult
    /\ pyCall = "none"
    /\ dirExists = FALSE
    /\ dirEntries = <<>>
    /\ seasons = <<>>
    /\ seriesCall = "none"
    /\ metaDir = {}
    /\ posterDir = {}
    /\ cacheTrace = <<>>
    /\ folders = <<>>
    /\ objs = <<>>
    /\ video_items = <<>>
    /\ ioLog = {}
    /\ uiError = FALSE
    /\ searchText = <<>>
    /\ genreCombo = {0}
    /\ genreSel = 0
    /\ scanned = FALSE
    /\ config = [positions |-> {}, last_watched |-> "none"]
    /\ configFile = config
    /\ player = NoPlayer
    /\ videos = <<>>
    /\ listCall = "none"
    /\ boot = Booted

\* write(data) at offset 0 of a file that holds old
WriteAtStart(old, data) ==
    IF Len(old) > Len(data) THEN data \o SubSeq(old, Len(data) + 1, Len(old)) ELSE data

\* open(path, "w"): the file is created, or the one the path names is cut
\* to length 0
Opened(r, w) ==
    IF r.link = 0
    THEN [r EXCEPT !.inodes = Append(@, <<>>), !.link = Len(r.inodes) + 1,
                   !.writers[w].ino = Len(r.inodes) + 1, !.writers[w].pc = "opened"]
    ELSE [r EXCEPT !.inodes[r.link] = <<>>,
                   !.writers[w].ino = r.link, !.writers[w].pc = "opened"]

\* save_metadata: with open(path, "w") as f
WriterOpen ==
    \E w \in 1..Len(race.writers) :
        /\ race.writers[w].pc = "start"
        /\ race' = Opened(race, w)
        /\ UNCHANGED <<parseVars, seriesVars, cacheVars, libVars, playerVars, bootVars,
                       listVars>>

\* save_metadata: json.dump(safe_data, f) and the end of the with block
WriterClose ==
    \E w \in 1..Len(race.writers) :
        /\ race.writers[w].pc = "opened"
        /\ race' = [race EXCEPT
                      !.inodes[race.writers[w].ino] = WriteAtStart(@, race.writers[w].data),
                      !.writers[w].pc = "done"]
        /\ UNCHANGED <<parseVars, seriesVars, cacheVars, libVars, playerVars, bootVars,
                       listVars>>

\* get_cached_metadata: if os.path.exists(path), else return None
ReaderExists ==
    /\ race.reader.pc = "start"
    /\ race' = IF race.link = 0
               THEN [race EXCEPT !.reader = [pc |-> "done", ret |-> <<>>, raised |-> "none"]]
               ELSE [race EXCEPT !.reader.pc = "exists"]
    /\ UNCHANGED <<parseVars, seriesVars, cacheVars, libVars, playerVars, bootVars, listVars>>

\* the reader after json.load(f) gave parsed
Loaded(r, parsed) ==
    IF parsed.ok
    THEN [r EXCEPT !.reader = [pc |-> "done", ret |-> <<parsed.val>>, raised |-> "none"]]
    ELSE [r EXCEPT !.reader.pc = "failed"]

\* get_cached_metadata: with open(path) as f: return json.load(f)
ReaderLoad ==
    /\ race.reader.pc = "exists"
    /\ race' = Loaded(race, json_load(race.inodes[race.link]))
    /\ UNCHANGED <<parseVars, seriesVars, cacheVars, libVars, playerVars, bootVars, listVars>>

\* a writer has the file the path names open
HeldOpen(r) == \E w \in 1..Len(r.writers) : r.writers[w].pc = "opened" /\ r.writers[w].ino = r.link

\* get_cached_metadata: os.remove(path); return None.  Windows refuses to
\* delete a file that is open, and PermissionError is not among the caught
\* exceptions
ReaderRemove ==
    /\ race.reader.pc = "failed"
    /\ race' = IF race.platform = "windows" /\ HeldOpen(race)
               THEN [race EXCEPT !.reader = [pc |-> "done", ret |-> <<>>,
                                             raised |-> "PermissionError"]]
               ELSE [race EXCEPT !.link = 0,
                                 !.reader = [pc |-> "done", ret |-> <<>>, raised |-> "none"]]
    /\ UNCHANGED <<parseVars, seriesVars, cacheVars, libVars, playerVars, bootVars, listVars>>

NextRace == WriterOpen \/ WriterClose \/ ReaderExists \/ ReaderLoad \/ ReaderRemove

SpecRace == InitRace /\ [][NextRace]_vars

(***************************************************************************)
(* The library started on a cache left by an earlier run or by another     *)
(* program: one entry to scan, and a metadata file of any content under    *)
(* the key its constructor reads                                           *)
(***************************************************************************)
\* the first folder holds the video or the series folder alone
StaleFolders ==
    {<<[path |-> FolderM, exists |-> TRUE, entries |-> <<DiskChildren[i]>>],
       [path |-> FolderN, exists |-> FALSE, entries |-> <<>>]>> : i \in {1, 2}}

\* the key the constructor of the only entry reads
StaleKey(fs) ==
    IF fs[1].entries[1].isFile
    THEN VideoItemKey(EntryPath(fs[1].path, fs[1].entries[1].name))
    ELSE SeriesItemKey(EntryPath(fs[1].path, fs[1].entries[1].name))

InitStale ==
    /\ folders \in StaleFolders
    /\ metaDir \in {{[key |-> StaleKey(folders), data |-> c]} : c \in AnyContents}
    /\ objs = <<>>
    /\ video_items = <<>>
    /\ ioLog = {}
    /\ uiError = FALSE
    /\ searchText = <<>>
    /\ genreCombo = {0}
    /\ genreSel = 0
    /\ scanned = FALSE
    /\ posterDir = {}
    /\ cacheTrace = <<>>
    /\ pyName = <<>>
    /\ pyResult = NoResult
    /\ pyCall = "none"
    /\ dirExists = FALSE
    /\ dirEntries = <<>>
    /\ seasons = <<>>
    /\ seriesCall = "none"
    /\ config = [positions |-> {}, last_watched |-> "none"]
    /\ configFile = config
    /\ player = NoPlayer
    /\ videos = <<>>
    /\ listCall = "none"
    /\ boot = Booted
    /\ race = NoRace

SpecStale == InitStale /\ [][NextLib]_vars

(***************************************************************************)
(* Parser harness: a file name is drawn, then a parser is applied to it    *)
(***************************************************************************)
SFrag == {<<"S">>, <<"s">>, <<"x">>, <<>>}
NumFrag == {<<"1">>, <<"0", "2">>, <<"1", "2", "3">>, <<>>}
EFrag == {<<"E">>, <<"e">>, <<>>}
SepFrag == {<<"-">>, <<" ", "-", " ">>, <<" ">>, <<"-", "-">>, <<>>}
TitleFrag == {<<"A">>, <<"A", " ">>, <<"a", ".", "b">>, <<>>}
ExtFrag == {<<".", "m", "k", "v">>, <<>>}

ParseNames ==
    {a \o b \o c \o d \o e \o f \o g :
        a \in SFrag, b \in NumFrag, c \in EFrag, d \in NumFrag,
        e \in SepFrag, f \in TitleFrag, g \in ExtFrag}

InitParse ==
    /\ pyName \in ParseNames
    /\ pyResult = NoResult
    /\ pyCall = "none"
    /\ dirExists = FALSE
    /\ dirEntries = <<>>
    /\ seasons = <<>>
    /\ seriesCall = "none"
    /\ metaDir = {}
    /\ posterDir = {}
    /\ cacheTrace = <<>>
    /\ folders = <<>>
    /\ objs = <<>>
    /\ video_items = <<>>
    /\ ioLog = {}
    /\ uiError = FALSE
    /\ searchText = <<>>
    /\ genreCombo = {0}
    /\ genreSel = 0
    /\ scanned = FALSE
    /\ config = [positions |-> {}, last_watched |-> "none"]
    /\ configFile = config
    /\ player = NoPlayer
    /\ videos = <<>>
    /\ listCall = "none"
    /\ boot = Booted
    /\ race = NoRace

CallParseFilename ==
    /\ pyCall = "none"
    /\ pyResult' = parse_filename(pyName)
    /\ pyCall' = "parse_filename"
    /\ UNCHANGED <<pyName, seriesVars, cacheVars, libVars, playerVars, bootVars, listVars, raceVars>>

NextParse == CallParseFilename

SpecParse == InitParse /\ [][NextParse]_vars

(***************************************************************************)
(* Episode-number harness: a name is drawn and parse_episode_number is     *)
(* applied to it                                                           *)
(***************************************************************************)
PreFrag == {<<>>, <<"x", " ">>, <<"S", "1">>, <<"s", "9", "E">>, <<"E", "4", ".">>}
TailFrag ==
    {<<>>, <<"5">>, <<"S", "0", "2", "E", "0", "7">>,
     <<" ", "-", " ", "s", "3", "e", "4", ".", "m", "k", "v">>}

EpisodeNames ==
    {p \o a \o b \o c \o d \o t :
        p \in PreFrag, a \in SFrag, b \in NumFrag, c \in EFrag, d \in NumFrag, t \in TailFrag}

InitEpisode ==
    /\ pyName \in EpisodeNames
    /\ pyResult = NoResult
    /\ pyCall = "none"
    /\ dirExists = FALSE
    /\ dirEntries = <<>>
    /\ seasons = <<>>
    /\ seriesCall = "none"
    /\ metaDir = {}
    /\ posterDir = {}
    /\ cacheTrace = <<>>
    /\ folders = <<>>
    /\ objs = <<>>
    /\ video_items = <<>>
    /\ ioLog = {}
    /\ uiError = FALSE
    /\ searchText = <<>>
    /\ genreCombo = {0}
    /\ genreSel = 0
    /\ scanned = FALSE
    /\ config = [positions |-> {}, last_watched |-> "none"]
    /\ configFile = config
    /\ player = NoPlayer
    /\ videos = <<>>
    /\ listCall = "none"
    /\ boot = Booted
    /\ race = NoRace

\* parse_episode_number(name)
CallParseEpisodeNumber ==
    /\ pyCall = "none"
    /\ pyResult' = [NoResult EXCEPT !.episode = parse_episode_number(pyName)]
    /\ pyCall' = "parse_episode_number"
    /\ UNCHANGED <<pyName, seriesVars, cacheVars, libVars, playerVars, bootVars, listVars, raceVars>>

NextEpisode == CallParseEpisodeNumber

SpecEpisode == InitEpisode /\ [][NextEpisode]_vars

(***************************************************************************)
(* Both parsers on one file name: parse_filename, then                     *)
(* parse_episode_number on the same name                                   *)
(***************************************************************************)
\* the names of the parser harness, and names of the primary shape whose
\* title holds a second season-episode tag or a digit
AgreeNames ==
    ParseNames
        \cup {a \o b \o c \o d \o e \o t :
                a \in SFrag, b \in NumFrag, c \in EFrag, d \in NumFrag, e \in SepFrag,
                t \in TailFrag}

InitAgree ==
    /\ pyName \in AgreeNames
    /\ pyResult = NoResult
    /\ pyCall = "none"
    /\ dirExists = FALSE
    /\ dirEntries = <<>>
    /\ seasons = <<>>
    /\ seriesCall = "none"
    /\ metaDir = {}
    /\ posterDir = {}
    /\ cacheTrace = <<>>
    /\ folders = <<>>
    /\ objs = <<>>
    /\ video_items = <<>>
    /\ ioLog = {}
    /\ uiError = FALSE
    /\ searchText = <<>>
    /\ genreCombo = {0}
    /\ genreSel = 0
    /\ scanned = FALSE
    /\ config = [positions |-> {}, last_watched |-> "none"]
    /\ configFile = config
    /\ player = NoPlayer
    /\ videos = <<>>
    /\ listCall = "none"
    /\ boot = Booted
    /\ race = NoRace

\* parse_episode_number(name) on the name parse_filename was given
CallParseEpisodeNumberAfter ==
    /\ pyCall = "parse_filename"
    /\ pyResult' = [NoResult EXCEPT !.episode = parse_episode_number(pyName)]
    /\ pyCall' = "parse_episode_number"
    /\ UNCHANGED <<pyName, seriesVars, cacheVars, libVars, playerVars, bootVars, listVars, raceVars>>

NextAgree == CallParseFilename \/ CallParseEpisodeNumberAfter

SpecAgree == InitAgree /\ [][NextAgree]_vars

(***************************************************************************)
(* Title harness: a file name is drawn and clean_filename is applied to    *)
(* it, then to its own result                                              *)
(***************************************************************************)
CleanWords ==
    {<<"M", "o">>, <<"2", "0", "2", "1">>, <<"1", "9", "9", "9">>,
     <<"1", "0", "8", "0", "p">>, <<"B", "L", "U", "R", "a", "y">>,
     <<"H", ".", "2", "6", "4">>, <<"x", "2", "6", "4">>, <<>>}

CleanSeps == {<<".">>, <<"_">>, <<" ">>, <<"-">>}

CleanNames ==
    {a \o s \o b \o t \o c \o e :
        a \in CleanWords, b \in CleanWords, c \in CleanWords,
        s \in CleanSeps, t \in CleanSeps, e \in ExtFrag}

InitClean ==
    /\ pyName \in CleanNames
    /\ pyResult = NoResult
    /\ pyCall = "none"
    /\ dirExists = FALSE
    /\ dirEntries = <<>>
    /\ seasons = <<>>
    /\ seriesCall = "none"
    /\ metaDir = {}
    /\ posterDir = {}
    /\ cacheTrace = <<>>
    /\ folders = <<>>
    /\ objs = <<>>
    /\ video_items = <<>>
    /\ ioLog = {}
    /\ uiError = FALSE
    /\ searchText = <<>>
    /\ genreCombo = {0}
    /\ genreSel = 0
    /\ scanned = FALSE
    /\ config = [positions |-> {}, last_watched |-> "none"]
    /\ configFile = config
    /\ player = NoPlayer
    /\ videos = <<>>
    /\ listCall = "none"
    /\ boot = Booted
    /\ race = NoRace

\* name = clean_filename(filename)
CallCleanFilename ==
    /\ pyCall = "none"
    /\ pyResult' = [NoResult EXCEPT !.title = clean_filename(pyName)]
    /\ pyCall' = "clean_filename"
    /\ UNCHANGED <<pyName, seriesVars, cacheVars, libVars, playerVars, bootVars, listVars, raceVars>>

\* clean_filename of what clean_filename returned
CallCleanFilenameAgain ==
    /\ pyCall = "clean_filename"
    /\ pyResult' = [pyResult EXCEPT !.title = clean_filename(pyResult.title)]
    /\ pyCall' = "clean_filename_again"
    /\ UNCHANGED <<pyName, seriesVars, cacheVars, libVars, playerVars, bootVars, listVars, raceVars>>

NextClean == CallCleanFilename \/ CallCleanFilenameAgain

SpecClean == InitClean /\ [][NextClean]_vars

(***************************************************************************)
(* The player window (VLCPlayerWindow) and the positions of the            *)
(* configuration                                                           *)
(*                                                                         *)
(* config is the dict the library window and the player share, configFile  *)
(* what save_config last wrote.  positions is a set of [path, pos].  One   *)
(* player window is open at a time.                                        *)
(***************************************************************************)
PathVideo == "/m/a.mkv"
PathOther == "/m/b.mkv"
PathGone == "/m/gone.mkv"

PlayerPaths == {PathVideo, PathOther, PathGone}

\* the paths os.path.exists finds
DiskFiles == {PathVideo, PathOther}

\* config.get("positions", {}).get(path) is not None
HasPosition(c, path) == \E e \in c.positions : e.path = path

PositionOf(c, path) == (CHOOSE e \in c.positions : e.path = path).pos

\* config.setdefault("positions", {})[path] = pos
SetPosition(c, path, pos) ==
    [c EXCEPT !.positions = {e \in @ : e.path # path} \cup {[path |-> path, pos |-> pos]}]

\* save_config(d)
save_config(d) == d

\* play without the test of os.path.exists
play_unchecked(path) ==
    [NoPlayer EXCEPT !.state = "open", !.media = path, !.time = 0, !.seek = TRUE,
                     !.playing = TRUE, !.inactivity_timer = TRUE]

\* VLCPlayerWindow.play: a path that does not exist gives a warning and
\* nothing else; otherwise the media is set, playback starts and
\* seek_and_load is scheduled
play(path) ==
    IF path \notin DiskFiles
    THEN [NoPlayer EXCEPT !.state = "open", !.warned = TRUE]
    ELSE [NoPlayer EXCEPT !.state = "open", !.media = path, !.time = 0, !.seek = TRUE,
                          !.playing = TRUE, !.inactivity_timer = TRUE]

\* LibraryWindow.launch_player
LaunchPlayer ==
    \E path \in PlayerPaths :
        /\ player.state # "open"
        /\ ~player.seek
        /\ player' = play(path)
        /\ config' = [config EXCEPT !.last_watched = path]
        /\ configFile' = save_config(config')
        /\ UNCHANGED <<parseVars, seriesVars, cacheVars, libVars, bootVars, listVars, raceVars>>

\* the single-shot timer of play runs seek_and_load; on a closed window the
\* player is gone and set_time fails inside its try
SeekAndLoad ==
    /\ player.seek
    /\ player' = [player EXCEPT
                    !.time = IF player.state = "open" /\ HasPosition(config, player.media)
                             THEN PositionOf(config, player.media) * 1000 ELSE @,
                    !.seek = FALSE,
                    !.timer = TRUE]
    /\ UNCHANGED <<config, configFile, parseVars, seriesVars, cacheVars, libVars, bootVars, listVars, raceVars>>

MaxTicks == 3

\* playback advances
Tick ==
    /\ player.state = "open"
    /\ player.media # "none"
    /\ player.ticks < MaxTicks
    /\ player' = [player EXCEPT !.time = @ + 1, !.ticks = @ + 1]
    /\ UNCHANGED <<config, configFile, parseVars, seriesVars, cacheVars, libVars, bootVars, listVars, raceVars>>

\* closeEvent stores the position when
\* "pos > 0 and self._current_media_path" holds; the AttributeError of the
\* second operand is swallowed by the bare except
PositionSaved(p) == p.time > 0 /\ p.current_media_path \notin {Unset, ""}

\* VLCPlayerWindow.closeEvent, with stop_and_release
CloseEvent ==
    /\ player.state = "open"
    /\ IF PositionSaved(player)
       THEN /\ config' = SetPosition(config, player.current_media_path, player.time)
            /\ configFile' = save_config(config')
       ELSE UNCHANGED <<config, configFile>>
    /\ player' = [player EXCEPT !.state = "closed", !.time = NoTime, !.timer = FALSE,
                                 !.playing = FALSE]
    /\ UNCHANGED <<parseVars, seriesVars, cacheVars, libVars, bootVars, listVars, raceVars>>

\* positions a configuration file may hold at start-up
StartPositions ==
    {{}} \cup {{[path |-> PathVideo, pos |-> p]} : p \in 0..2}

InitPlayer ==
    /\ config \in {[positions |-> ps, last_watched |-> "none"] : ps \in StartPositions}
    /\ configFile = config
    /\ player = NoPlayer
    /\ videos = <<>>
    /\ listCall = "none"
    /\ boot = Booted
    /\ race = NoRace
    /\ pyName = <<>>
    /\ pyResult = NoResult
    /\ pyCall = "none"
    /\ dirExists = FALSE
    /\ dirEntries = <<>>
    /\ seasons = <<>>
    /\ seriesCall = "none"
    /\ metaDir = {}
    /\ posterDir = {}
    /\ cacheTrace = <<>>
    /\ folders = <<>>
    /\ objs = <<>>
    /\ video_items = <<>>
    /\ ioLog = {}
    /\ uiError = FALSE
    /\ searchText = <<>>
    /\ genreCombo = {0}
    /\ genreSel = 0
    /\ scanned = FALSE

NextPlayer == LaunchPlayer \/ SeekAndLoad \/ Tick \/ CloseEvent

SpecPlayer == InitPlayer /\ [][NextPlayer]_vars

(***************************************************************************)
(* C2: parse_filename returns the season and episode integers and the      *)
(* trimmed remainder for every name whose stem starts with S, 1-2 digits,  *)
(* E, 1-2 digits, optional whitespace, a hyphen (either letter case of S   *)
(* and E), and (1, 0, full stem) for every other name.                     *)
(***************************************************************************)
\* the stem reads S d{k1} E d{k2} w-many blanks and then a hyphen
C2_Shape(stem, k1, k2, w) ==
    LET h == k1 + k2 + 3 + w IN
    /\ h <= Len(stem)
    /\ stem[1] \in {"S", "s"}
    /\ \A j \in 2..(k1 + 1) : stem[j] \in Digits
    /\ stem[k1 + 2] \in {"E", "e"}
    /\ \A j \in (k1 + 3)..(k1 + k2 + 2) : stem[j] \in Digits
    /\ \A j \in (k1 + k2 + 3)..(h - 1) : stem[j] \in Whitespace
    /\ stem[h] = "-"

C2_Shapes(stem) ==
    {m \in (1..2) \X (1..2) \X (0..Len(stem)) : C2_Shape(stem, m[1], m[2], m[3])}

C2_ParseFilename ==
    pyCall = "parse_filename" =>
        LET stem == SplitextStem(pyName) IN
        IF C2_Shapes(stem) # {}
        THEN \A m \in C2_Shapes(stem) :
                pyResult = [season |-> DigitsToInt(SubSeq(stem, 2, m[1] + 1)),
                            episode |-> DigitsToInt(SubSeq(stem, m[1] + 3, m[1] + m[2] + 2)),
                            title |-> Strip(From(stem, m[1] + m[2] + m[3] + 4))]
        ELSE pyResult = [season |-> 1, episode |-> 0, title |-> stem]

C2_Witness ==
    /\ pyCall = "parse_filename"
    /\ pyName = <<"S", "0", "2", "E", "1", " ", "-", " ", "A", " ", ".", "m", "k", "v">>
    /\ pyResult = [season |-> 2, episode |-> 1, title |-> <<"A">>]

(***************************************************************************)
(* C1: within each season group returned by parse_series_folder the        *)
(* episodes are in non-decreasing order of the episode number in their     *)
(* file name, ties in scan order, whatever the enumeration order.          *)
(***************************************************************************)
\* the position of a path in the scan order
C1_ScanIndex(path) ==
    CHOOSE i \in 1..Len(dirEntries) : EntryPath(SeriesFolderPath, dirEntries[i].name) = path

C1_FileEpisode(ep) == parse_episode_number(Basename(ep.path))

C1_EpisodesOrdered ==
    seriesCall = "done" =>
        \A g \in 1..Len(seasons) :
            \A i, j \in 1..Len(seasons[g].eps) :
                i < j =>
                    LET a == seasons[g].eps[i]
                        b == seasons[g].eps[j]
                    IN \/ C1_FileEpisode(a) < C1_FileEpisode(b)
                       \/ /\ C1_FileEpisode(a) = C1_FileEpisode(b)
                          /\ C1_ScanIndex(a.path) < C1_ScanIndex(b.path)

(***************************************************************************)
(* C7: every direct-child file whose extension is one of VIDEO_EXTS, in    *)
(* any letter case, is exactly one episode of exactly one season group of  *)
(* parse_series_folder, and every other child is in none.                  *)
(***************************************************************************)
C7_Occurrences(path) ==
    Cardinality({gi \in (1..Len(seasons)) \X (1..MaxDirEntries + 1) :
                    /\ gi[2] <= Len(seasons[gi[1]].eps)
                    /\ seasons[gi[1]].eps[gi[2]].path = path})

C7_EveryVideoFileGrouped ==
    (seriesCall = "done" /\ dirExists) =>
        \A i \in 1..Len(dirEntries) :
            C7_Occurrences(EntryPath(SeriesFolderPath, dirEntries[i].name))
                = IF dirEntries[i].isFile /\ HasExt(dirEntries[i].name, VIDEO_EXTS)
                  THEN 1 ELSE 0

(***************************************************************************)
(* C3: save_metadata(key, record) followed by get_cached_metadata(key)     *)
(* returns the record's title and overview and its genre ids, in order, as *)
(* integers, for every key and every record whose genre ids are integers   *)
(* or numerals (C3_RoundTripAnyKey).  C3_RoundTrip is the same statement   *)
(* for the keys without a path separator.                                  *)
(***************************************************************************)
\* the integer each genre id of the harness stands for
C3_IntOf(x) ==
    CASE x = PInt(28) -> 28
      [] x = PStr(<<"1", "2">>) -> 12
      [] x = PStr(<<" ", "-", "0", "7">>) -> 0 - 7

C3_SaveThenGet ==
    /\ Len(cacheTrace) = 2
    /\ cacheTrace[1].op = "save"
    /\ cacheTrace[2].op = "get"
    /\ cacheTrace[1].key = cacheTrace[2].key
    /\ cacheTrace[1].data \in GoodRecords

C3_Returned ==
    LET d == cacheTrace[1].data
        r == cacheTrace[2].ret
        g == DictGet(d, KeyGenres, FNone).items
    IN /\ cacheTrace[1].raised = "none"
       /\ cacheTrace[2].raised = "none"
       /\ r.kind = "dict"
       /\ DictGet(r, KeyTitle, FNone) = DictGet(d, KeyTitle, FNone)
       /\ DictGet(r, KeyOverview, FNone) = DictGet(d, KeyOverview, FNone)
       /\ DictGet(r, KeyGenres, FNone) = FList([i \in 1..Len(g) |-> PInt(C3_IntOf(g[i]))])

C3_RoundTripAnyKey == C3_SaveThenGet => C3_Returned

C3_RoundTrip ==
    (C3_SaveThenGet /\ \A i \in 1..Len(cacheTrace[1].key) : cacheTrace[1].key[i] # "/")
        => C3_Returned

C3_Witness ==
    /\ C3_SaveThenGet
    /\ cacheTrace[1].key = KeyM
    /\ cacheTrace[1].before.exists
    /\ DictGet(cacheTrace[1].data, KeyGenres, FNone).items
          = <<PStr(<<"1", "2">>), PStr(<<" ", "-", "0", "7">>)>>
    /\ DictGet(cacheTrace[2].ret, KeyGenres, FNone).items = <<PInt(12), PInt(0 - 7)>>

(***************************************************************************)
(* C4: when the metadata file of a key exists and does not parse,          *)
(* get_cached_metadata returns absent without raising and the file is gone *)
(* afterwards; a following get_cached_metadata of the key is a plain miss. *)
(***************************************************************************)
C4_CorruptGet(i) ==
    /\ i <= Len(cacheTrace)
    /\ cacheTrace[i].op = "get"
    /\ cacheTrace[i].before.exists
    /\ cacheTrace[i].before.data \in CorruptContents

C4_CorruptFileRemoved ==
    \A i \in 1..2 :
        C4_CorruptGet(i) =>
            /\ cacheTrace[i].ret = VNone
            /\ cacheTrace[i].raised = "none"
            /\ ~cacheTrace[i].after.exists
            /\ (i = 1 /\ Len(cacheTrace) = 2 /\ cacheTrace[2].op = "get"
                    /\ cacheTrace[2].key = cacheTrace[1].key)
                  => /\ ~cacheTrace[2].before.exists
                     /\ cacheTrace[2].ret = VNone
                     /\ cacheTrace[2].raised = "none"
                     /\ ~cacheTrace[2].after.exists

C4_Witness ==
    /\ C4_CorruptGet(1)
    /\ cacheTrace[1].before.data = SubSeq(ValidContent, 1, Len(ValidContent) - 1)
    /\ Len(cacheTrace) = 2
    /\ cacheTrace[2].op = "get"
    /\ cacheTrace[2].key = KeyM
    /\ metaDir = {}

(***************************************************************************)
(* C5: whatever the metadata file of a key holds, a file that parses but   *)
(* is no record included, creating the VideoItem or SeriesItem of that key *)
(* completes without raising and the entry keeps its default title,        *)
(* overview and genre ids, as on a cache miss.                             *)
(***************************************************************************)
\* the content is a record: an object with the three members
C5_IsRecord(data) ==
    /\ json_load(data).ok
    /\ json_load(data).val.kind = "dict"
    /\ \A k \in {KeyTitle, KeyOverview, KeyGenres} :
          \E i \in 1..Len(json_load(data).val.keys) : json_load(data).val.keys[i] = k

C5_Defaults(e) ==
    /\ e.title = FStr(Basename(e.path))
    /\ e.overview = FStr(DefaultOverview)
    /\ e.genres = FList(<<>>)

C5_MalformedIsMiss ==
    [][(objs = <<>> /\ (objs' # objs \/ uiError')
            /\ \E f \in metaDir : f.key = StaleKey(folders) /\ ~C5_IsRecord(f.data))
         => (~uiError' /\ Len(objs') = 1 /\ C5_Defaults(objs'[1]))]_vars

(***************************************************************************)
(* C6: with an empty search text and no genre filter, a scan yields        *)
(* exactly one VideoItem per direct-child file with a recognized video     *)
(* extension and exactly one SeriesItem per direct-child directory that    *)
(* has a direct-child file with a recognized video extension, and nothing  *)
(* for any other child.                                                    *)
(***************************************************************************)
C6_Extensions ==
    {<<".", "m", "p", "4">>, <<".", "m", "k", "v">>, <<".", "a", "v", "i">>,
     <<".", "m", "o", "v">>, <<".", "f", "l", "v">>, <<".", "w", "m", "v">>,
     <<".", "w", "e", "b", "m">>}

C6_Recognized(name) == \E x \in C6_Extensions : EndsWith(Lower(name), x)

\* what the claim has a child c yield: "video", "series" or "none"
C6_Kind(c) ==
    IF c.isFile
    THEN (IF C6_Recognized(c.name) THEN "video" ELSE "none")
    ELSE IF \E j \in 1..Len(c.children) :
               c.children[j].isFile /\ C6_Recognized(c.children[j].name)
         THEN "series" ELSE "none"

\* the places of video_items that hold an entry of that type and path
C6_Entries(type, path) ==
    {k \in 1..Len(video_items) :
        objs[video_items[k]].type = type /\ objs[video_items[k]].path = path}

C6_Children ==
    {<<f, i>> \in (1..Len(folders)) \X (1..MaxChildren + 1) :
        folders[f].exists /\ i <= Len(folders[f].entries)}

\* a scan has run, and the last one had no search text and no genre filter
C6_Scanned == searchText = <<>> /\ genreSel = 0 /\ (objs # <<>> \/ uiError)

C6_ScanYieldsEntries ==
    C6_Scanned =>
        /\ ~uiError
        /\ \A fi \in C6_Children :
              LET c == folders[fi[1]].entries[fi[2]]
                  p == folders[fi[1]].path \o <<"/">> \o c.name
              IN /\ Cardinality(C6_Entries("video", p))
                       = (IF C6_Kind(c) = "video" THEN 1 ELSE 0)
                 /\ Cardinality(C6_Entries("series", p))
                       = (IF C6_Kind(c) = "series" THEN 1 ELSE 0)
        /\ Len(video_items) = Cardinality({fi \in C6_Children :
                                  C6_Kind(folders[fi[1]].entries[fi[2]]) # "none"})

\* a scan of a series folder, a folder without videos and a video
C6_Witness ==
    /\ C6_Scanned
    /\ Len(video_items) = 2
    /\ Len(folders[1].entries) = 2
    /\ \E i \in 1..2 : folders[1].entries[i].name = NameDocs
    /\ objs[video_items[1]].type = "series"
    /\ objs[video_items[2]].type = "video"

(***************************************************************************)
(* C8: for a SeriesItem the cache key is the folder name: the key the      *)
(* fetch writes the record and the poster under is the key the constructor *)
(* reads, so a later scan of the folder finds them.                        *)
(***************************************************************************)
C8_WriteKeyIsReadKey ==
    \A r \in ioLog, w \in ioLog :
        (/\ r.obj = w.obj
         /\ objs[r.obj].type = "series"
         /\ r.op \in {"get_meta", "get_poster"}
         /\ w.op \in {"save_meta", "save_poster"})
            => w.key = r.key

(***************************************************************************)
(* C9: for a VideoItem every cache read and write, of the record and of    *)
(* the poster, uses the raw file name stem as key; the cleaned title is    *)
(* used only as the remote search query.                                   *)
(***************************************************************************)
C9_Stem(path) == SplitextStem(Basename(path))

C9_VideoKeys ==
    \A l \in ioLog :
        objs[l.obj].type = "video" =>
            IF l.op = "search"
            THEN l.key = clean_filename(Basename(objs[l.obj].path))
            ELSE l.key = C9_Stem(objs[l.obj].path)

\* a video whose stem, cleaned title and remote title all differ has read
\* the cache, asked the remote API and written the record and the poster
C9_Witness ==
    \E id \in 1..Len(objs) :
        /\ objs[id].type = "video"
        /\ objs[id].title = FStr(<<"M", "o", "v", "i", "e">>)
        /\ C9_Stem(objs[id].path) # clean_filename(Basename(objs[id].path))
        /\ {l.op : l \in {x \in ioLog : x.obj = id}}
              = {"get_meta", "get_poster", "search", "save_meta", "save_poster"}

(***************************************************************************)
(* C10: after a file is played and the player window is closed while the   *)
(* playback position p is greater than 0, the positions map of the         *)
(* configuration holds p for the path of that file and the configuration   *)
(* has been saved.                                                         *)
(***************************************************************************)
C10_ClosedWhilePlaying ==
    /\ player.state = "open"
    /\ player'.state = "closed"
    /\ player.media # "none"
    /\ player.time > 0

C10_PositionStoredOnClose ==
    [][C10_ClosedWhilePlaying =>
          /\ HasPosition(config', player.media)
          /\ PositionOf(config', player.media) = player.time
          /\ HasPosition(configFile', player.media)
          /\ PositionOf(configFile', player.media) = player.time]_vars

(***************************************************************************)
(* C11: positions are offsets in milliseconds on both sides: when play     *)
(* opens a file whose positions entry is p, the player is asked to seek to *)
(* exactly p milliseconds.                                                 *)
(***************************************************************************)
\* seek_and_load runs on an open window for a file with a positions entry
C11_SeekToEntry ==
    /\ player.seek
    /\ ~player'.seek
    /\ player.state = "open"
    /\ player.media # "none"
    /\ HasPosition(config, player.media)

C11_SeekIsStoredOffset ==
    [][C11_SeekToEntry => player'.time = PositionOf(config, player.media)]_vars

(***************************************************************************)
(* C12: start-up aborts with an error exactly when the loaded              *)
(* configuration has no non-empty tmdb_api_key (config file missing,       *)
(* unreadable, or without the key); the abort happens before the cache     *)
(* directories are created and before any scan.                            *)
(***************************************************************************)
\* position i of the text of config.json holds the member tmdb_api_key with
\* a non-empty string
C12_KeyAt(data, i) ==
    /\ data[i] = TStr(KeyApi)
    /\ data[i + 1] = TPunct(":")
    /\ data[i + 2].k = "str"
    /\ data[i + 2].s # <<>>
    /\ data[i + 3].k \in {",", "}"}

\* config.json is a complete object that has the member
C12_HasKey(file) ==
    /\ file.exists
    /\ Len(file.data) >= 5
    /\ file.data[1] = TPunct("{")
    /\ file.data[Len(file.data)] = TPunct("}")
    /\ \E i \in 2..(Len(file.data) - 3) : C12_KeyAt(file.data, i)

\* no scan has constructed an entry, read or written the cache, or filled
\* the view
C12_NothingScanned ==
    /\ ~scanned
    /\ objs = <<>>
    /\ video_items = <<>>
    /\ ioLog = {}
    /\ genreCombo = {0}

C12_AbortState ==
    /\ boot.phase = "aborted" <=> (boot.phase # "start" /\ ~C12_HasKey(boot.file))
    /\ boot.phase = "aborted" =>
          boot.error # "none" /\ ~boot.makedirs /\ C12_NothingScanned
    /\ boot.phase = "start" => ~boot.makedirs /\ C12_NothingScanned

C13_Idempotent ==
    [][pyCall' = "clean_filename_again" => pyResult'.title = pyResult.title]_vars

\* a name that the first cleaning shortened to a title of two words has been
\* cleaned a second time
C13_Witness ==
    /\ pyCall = "clean_filename_again"
    /\ Len(pyResult.title) < Len(SplitextStem(pyName))
    /\ \E i \in 1..Len(pyResult.title) : pyResult.title[i] = " "

(***************************************************************************)
(* C14: for every file name, the result of clean_filename has no "." and   *)
(* no "_", no standalone 4-digit year from 1900 to 2099, none of the       *)
(* release-quality tags (1080p, BluRay, x264, H.264 ...) in any letter     *)
(* case, no leading, trailing or repeated whitespace, and keeps all other  *)
(* words in order; clean_filename("Movie.2021.1080p.mkv") is "Movie".      *)
(***************************************************************************)
\* the tag is at position i of s as a word of its own, written with "." or
\* with the blank that stands for it in a title
C14_TagAt(s, i, tag) ==
    /\ i + Len(tag) - 1 <= Len(s)
    /\ Lower(ReplaceDotsUnderscores(SubSeq(s, i, i + Len(tag) - 1)))
          = ReplaceDotsUnderscores(tag)
    /\ BoundaryAt(s, i)
    /\ BoundaryAt(s, i + Len(tag))

C14_NoTag(s) ==
    \A i \in 1..Len(s) : \A k \in 1..Len(QualityTags) : ~C14_TagAt(s, i, QualityTags[k])

C14_NoYear(s) ==
    \A i \in 1..Len(s) :
        ~(/\ i + 3 <= Len(s)
          /\ \A j \in i..(i + 3) : s[j] \in Digits
          /\ 1900 <= DigitsToInt(SubSeq(s, i, i + 3))
          /\ DigitsToInt(SubSeq(s, i, i + 3)) <= 2099
          /\ ~WordAt(s, i - 1)
          /\ ~WordAt(s, i + 4))

C14_Trimmed(s) ==
    /\ \A i \in 1..Len(s) : s[i] \notin {".", "_"}
    /\ s # <<>> => s[1] \notin Whitespace /\ s[Len(s)] \notin Whitespace
    /\ \A i \in 1..(Len(s) - 1) : ~(s[i] \in Whitespace /\ s[i + 1] \in Whitespace)

\* the words of s from position i on: the runs of letters and digits
RECURSIVE C14_Words(_, _, _)
C14_Words(s, i, cur) ==
    IF i > Len(s) THEN (IF cur = <<>> THEN <<>> ELSE <<cur>>)
    ELSE IF WordAt(s, i) /\ s[i] # "_" THEN C14_Words(s, i + 1, Append(cur, s[i]))
    ELSE (IF cur = <<>> THEN <<>> ELSE <<cur>>) \o C14_Words(s, i + 1, <<>>)

\* a word that is a year or a tag
C14_Dropped(w) == ~C14_NoYear(w) \/ ~C14_NoTag(w)

RECURSIVE C14_Kept(_)
C14_Kept(ws) ==
    IF ws = <<>> THEN <<>>
    ELSE (IF C14_Dropped(ws[1]) THEN <<>> ELSE <<ws[1]>>) \o C14_Kept(Tail(ws))

C14_MovieName ==
    <<"M", "o", "v", "i", "e", ".", "2", "0", "2", "1", ".", "1", "0", "8", "0", "p",
      ".", "m", "k", "v">>

C14_CleanResult ==
    /\ clean_filename(C14_MovieName) = <<"M", "o", "v", "i", "e">>
    /\ pyCall = "clean_filename" =>
          /\ C14_Trimmed(pyResult.title)
          /\ C14_NoYear(pyResult.title)
          /\ C14_NoTag(pyResult.title)
          /\ C14_Words(pyResult.title, 1, <<>>)
                = C14_Kept(C14_Words(SplitextStem(pyName), 1, <<>>))

(***************************************************************************)
(* C15: after save_metadata(key, data) returns, the file of that key holds *)
(* exactly the three fields title, overview and genre ids, with every      *)
(* genre id an integer; any other field of data (for example a poster      *)
(* path) is not written.                                                   *)
(***************************************************************************)
\* call i of the harness was a save_metadata that returned
C15_Saved(i) ==
    /\ i <= Len(cacheTrace)
    /\ cacheTrace[i].op = "save"
    /\ cacheTrace[i].raised = "none"

\* the member names of a JSON text: the strings followed by a colon
C15_Names(t) == {t[j].s : j \in {k \in 1..(Len(t) - 1) : t[k].k = "str" /\ t[k + 1].k = ":"}}

C15_FileOf(i) ==
    LET f == cacheTrace[i].after
        v == json_load(f.data)
    IN /\ f.exists
       /\ v.ok
       /\ v.val.kind = "dict"
       /\ v.val.keys = <<KeyTitle, KeyOverview, KeyGenres>>
       /\ C15_Names(f.data) = {KeyTitle, KeyOverview, KeyGenres}
       /\ v.val.vals[1].kind = "str"
       /\ v.val.vals[2].kind = "str"
       /\ v.val.vals[3].kind = "list"
       /\ Len(v.val.vals[3].items) = Len(DictGet(cacheTrace[i].data, KeyGenres, FNone).items)
       /\ \A j \in 1..Len(v.val.vals[3].items) : v.val.vals[3].items[j].kind = "int"

C15_ThreeFieldsWritten == \A i \in 1..2 : C15_Saved(i) => C15_FileOf(i)

\* a record with a poster path and a numeral among its genre ids was saved
C15_Witness ==
    \E i \in 1..2 :
        /\ C15_Saved(i)
        /\ KeyPoster \in {cacheTrace[i].data.keys[j] : j \in 1..Len(cacheTrace[i].data.keys)}
        /\ \E j \in 1..Len(DictGet(cacheTrace[i].data, KeyGenres, FNone).items) :
              DictGet(cacheTrace[i].data, KeyGenres, FNone).items[j].kind = "str"

(***************************************************************************)
(* C16: parse_series_folder puts every enumerated episode in exactly one   *)
(* group whose name is the literal "Season N", N being the season integer  *)
(* of the primary parse of its file name (leading zeros dropped) or 1 when *)
(* the name does not parse; no group is empty, and a folder that does not  *)
(* exist yields the empty mapping.                                         *)
(***************************************************************************)
\* the children parse_series_folder enumerates as episodes: the files with
\* one of its own extensions
C16_Enumerated ==
    {i \in 1..Len(dirEntries) :
        dirEntries[i].isFile /\ HasExt(dirEntries[i].name, SeriesDefaultExts)}

\* the groups that hold the episode of child i
C16_GroupsOf(i) ==
    {g \in 1..Len(seasons) :
        \E j \in 1..Len(seasons[g].eps) :
            seasons[g].eps[j].path = EntryPath(SeriesFolderPath, dirEntries[i].name)}

\* name is "Season " and the decimal numeral of n without leading zeros
C16_IsSeason(name, n) ==
    /\ Len(name) > 7
    /\ SubSeq(name, 1, 7) = <<"S", "e", "a", "s", "o", "n", " ">>
    /\ \A k \in 8..Len(name) : name[k] \in Digits
    /\ name[8] # "0" \/ Len(name) = 8
    /\ DigitsToInt(From(name, 8)) = n

\* the season of a file name: the digits after S when the stem has the
\* primary form, 1 otherwise
C16_Season(name) ==
    LET stem == SplitextStem(name) IN
    IF C2_Shapes(stem) = {} THEN 1
    ELSE LET m == CHOOSE m \in C2_Shapes(stem) : TRUE
         IN DigitsToInt(SubSeq(stem, 2, m[1] + 1))

C16_Grouping ==
    seriesCall = "done" =>
        /\ ~dirExists => seasons = <<>>
        /\ \A g \in 1..Len(seasons) : seasons[g].eps # <<>>
        /\ \A g, h \in 1..Len(seasons) : seasons[g].name = seasons[h].name => g = h
        /\ \A i \in C16_Enumerated :
              /\ C7_Occurrences(EntryPath(SeriesFolderPath, dirEntries[i].name)) = 1
              /\ \A g \in C16_GroupsOf(i) :
                    C16_IsSeason(seasons[g].name, C16_Season(dirEntries[i].name))

\* a folder with an episode of season 10 and a file that does not parse
\* has been grouped
C16_Witness ==
    /\ seriesCall = "done"
    /\ Len(seasons) = 2
    /\ \E i, j \in C16_Enumerated :
          /\ C2_Shapes(SplitextStem(dirEntries[i].name)) = {}
          /\ C16_Season(dirEntries[j].name) = 10

(***************************************************************************)
(* C17: when play(path) is called for a path that does not exist, the user *)
(* gets a non-fatal notice and playback does not start: no media is set on *)
(* the player, no playback, seek or UI-update timer is started, and the    *)
(* application stays usable.                                               *)
(***************************************************************************)
\* the window that launch_player last opened was given a path that is not
\* on the disk
C17_MissingPlayed ==
    /\ player.state \in {"open", "closed"}
    /\ config.last_watched \notin DiskFiles

C17_NothingStarted ==
    /\ player.warned
    /\ player.media = "none"
    /\ ~player.playing
    /\ ~player.seek
    /\ ~player.timer
    /\ ~player.inactivity_timer
    /\ player.time = NoTime

\* the window can be closed and another file launched
C17_Usable ==
    /\ player.state = "open" => ENABLED CloseEvent
    /\ player.state = "closed" => ENABLED LaunchPlayer

C17_MissingFileNotice ==
    /\ C17_MissingPlayed => (C17_NothingStarted /\ C17_Usable)
    /\ player.warned => C17_MissingPlayed

\* the missing path was played after a file had been played and closed
C17_Witness ==
    /\ player.state = "open"
    /\ player.warned
    /\ config.last_watched = PathGone
    /\ configFile.last_watched = PathGone

(***************************************************************************)
(* C18: a configured folder that does not exist is skipped silently by the *)
(* scan and by list_videos_in_dirs: no error is raised and the entries     *)
(* produced for the other configured folders are the same as if the        *)
(* missing folder had not been configured.                                 *)
(***************************************************************************)
C18_IsThere(f) == f.exists

\* the configuration without its missing folders
C18_Configured == SelectSeq(folders, C18_IsThere)

C18_FolderMissing == \E f \in 1..Len(folders) : ~folders[f].exists

\* the type and path of the entries the view shows, in order
C18_Shown ==
    [k \in 1..Len(video_items) |->
        [type |-> objs[video_items[k]].type, path |-> objs[video_items[k]].path]]

\* the entries of the folders fs, each child giving what C6 has it give
RECURSIVE C18_Entries(_, _, _)
C18_Entries(fs, f, i) ==
    IF f > Len(fs) THEN <<>>
    ELSE IF i > Len(fs[f].entries) THEN C18_Entries(fs, f + 1, 1)
    ELSE (IF C6_Kind(fs[f].entries[i]) = "none" THEN <<>>
          ELSE <<[type |-> C6_Kind(fs[f].entries[i]),
                  path |-> fs[f].path \o <<"/">> \o fs[f].entries[i].name]>>)
            \o C18_Entries(fs, f, i + 1)

C18_MissingFolderSkipped ==
    /\ (scanned /\ searchText = <<>> /\ genreSel = 0 /\ C18_FolderMissing) =>
          /\ ~uiError
          /\ C18_Shown = C18_Entries(C18_Configured, 1, 1)
    /\ (listCall # "none" /\ C18_FolderMissing) =>
          videos = list_videos_in_dirs(C18_Configured, listCall = "recursive",
                                       Len(C18_Configured))

\* the missing folder came first, and both the scan and the recursive
\* listing went on to the folder after it
C18_Witness ==
    /\ ~folders[1].exists
    /\ scanned
    /\ Len(video_items) = 2
    /\ listCall = "recursive"
    /\ Len(videos) = 2

(***************************************************************************)
(* C19: parse_episode_number(name) returns, for every string, the episode  *)
(* integer of the leftmost S<1-2 digits>E<1-2 digits> occurrence found     *)
(* anywhere in the string (either letter case), and 0 when the string has  *)
(* no such occurrence.                                                     *)
(***************************************************************************)
\* at position p the string reads S, k1 digits, E, k2 digits
C19_Occurs(s, p, k1, k2) ==
    /\ p + k1 + k2 + 1 <= Len(s)
    /\ s[p] \in {"S", "s"}
    /\ \A j \in (p + 1)..(p + k1) : s[j] \in Digits
    /\ s[p + k1 + 1] \in {"E", "e"}
    /\ \A j \in (p + k1 + 2)..(p + k1 + k2 + 1) : s[j] \in Digits

C19_Occurrences(s) ==
    {o \in (1..Len(s)) \X (1..2) \X (1..2) : C19_Occurs(s, o[1], o[2], o[3])}

\* the leftmost occurrence, with as many episode digits as it has
C19_Leftmost(s) ==
    CHOOSE o \in C19_Occurrences(s) :
        \A q \in C19_Occurrences(s) : o[1] < q[1] \/ (o[1] = q[1] /\ o[3] >= q[3])

C19_Episode(s) ==
    IF C19_Occurrences(s) = {} THEN 0
    ELSE LET o == C19_Leftmost(s)
         IN DigitsToInt(SubSeq(s, o[1] + o[2] + 2, o[1] + o[2] + o[3] + 1))

C19_EpisodeNumber ==
    pyCall = "parse_episode_number" => pyResult.episode = C19_Episode(pyName)

\* the name has text before its first occurrence and a later occurrence with
\* another episode number
C19_Witness ==
    /\ pyCall = "parse_episode_number"
    /\ pyResult.episode > 0
    /\ \E o, q \in C19_Occurrences(pyName) :
          /\ o = C19_Leftmost(pyName)
          /\ o[1] > 1
          /\ q[1] > o[1] + o[2] + o[3] + 1
          /\ DigitsToInt(SubSeq(pyName, q[1] + q[2] + 2, q[1] + q[2] + q[3] + 1))
                # pyResult.episode

(***************************************************************************)
(* C20: in any scan, no two distinct entries' fetch tasks write the same   *)
(* metadata or poster file: for every folder content (the same file stem   *)
(* under two configured folders or with two extensions, a video and a      *)
(* series folder of the same name, two series folders that resolve to the  *)
(* same remote show name) the cache keys written by distinct entries are   *)
(* distinct.                                                               *)
(***************************************************************************)
\* the writes of the fetch tasks, as logged
C20_Writes == {l \in ioLog : l.op \in {"save_meta", "save_poster"}}

C20_WrittenKeysDistinct ==
    \A a, b \in C20_Writes :
        (a.op = b.op /\ objs[a.obj].path # objs[b.obj].path) => a.key # b.key

(***************************************************************************)
(* C21: for every interleaving of a get_cached_metadata(key) on the UI     *)
(* thread with a save_metadata(key, r) in a background fetch, the read     *)
(* returns absent or a complete record without raising, and once both have *)
(* completed the record r is present on disk for the next read.            *)
(***************************************************************************)
\* one writer and the reader, both through
C21_BothDone ==
    /\ Len(race.writers) = 1
    /\ race.writers[1].pc = "done"
    /\ race.reader.pc = "done"

\* what the reader got is absent or a record with the three fields
C21_ReadWhole ==
    /\ race.reader.raised = "none"
    /\ \A i \in 1..Len(race.reader.ret) :
          /\ race.reader.ret[i].kind = "dict"
          /\ race.reader.ret[i].keys = <<KeyTitle, KeyOverview, KeyGenres>>

C21_ReadDuringWrite ==
    /\ (Len(race.writers) = 1 /\ race.reader.pc = "done") => C21_ReadWhole
    /\ C21_BothDone =>
          /\ race.link # 0
          /\ race.inodes[race.link] = race.writers[1].data

(***************************************************************************)
(* C22: last-writer-wins on one key: for every interleaving of two         *)
(* save_metadata calls on the same key with records r1 and r2, after both  *)
(* complete the file holds exactly the serialization of r1 or exactly that *)
(* of r2, and get_cached_metadata returns that record.                     *)
(***************************************************************************)
\* two writers and no reader, both through
C22_BothWritten ==
    /\ Len(race.writers) = 2
    /\ race.reader.pc = "none"
    /\ race.writers[1].pc = "done"
    /\ race.writers[2].pc = "done"

C22_LastWriterWins ==
    C22_BothWritten =>
        /\ race.link # 0
        /\ race.inodes[race.link] \in {race.writers[1].data, race.writers[2].data}
        /\ json_load(race.inodes[race.link]).ok


(***************************************************************************)
(* C23: a remote fetch is started for an entry only on a cache miss: when  *)
(* an entry is created for a key that has a valid cached record, no        *)
(* background fetch runs for it and its cache file is not rewritten.       *)
(***************************************************************************)
\* the key the constructor of entry e read the cache under
C23_Key(e) == IF e.type = "video" THEN VideoItemKey(e.path) ELSE SeriesItemKey(e.path)

\* the cache md holds a record under key that get_cached_metadata returns
C23_Hit(md, key) ==
    /\ Truthy(get_cached_metadata(md, key).ret)
    /\ get_cached_metadata(md, key).ret.kind = "dict"

\* the entries this step constructed
C23_Created == (Len(objs) + 1)..Len(objs')

C23_FetchOnlyOnMiss ==
    [][\A id \in C23_Created :
          C23_Hit(metaDir, C23_Key(objs'[id])) => objs'[id].thread # "running"]_vars


(***************************************************************************)
(* C24: when a background fetch fails, either at the remote search or at   *)
(* the cache write (for example the key is not a writable file name), no   *)
(* error reaches the presentation layer and the entry's title, overview    *)
(* and genre ids after the fetch equal their values before it.             *)
(***************************************************************************)
\* the fetch of entry id ends in this step without its notification: the
\* search raised or found nothing, or the write of the record raised
C24_FetchFailed(id) ==
    /\ objs[id].thread = "running"
    /\ objs'[id].thread # "running"
    /\ objs'[id].emits = objs[id].emits

C24_FailedFetchKeepsFields ==
    [][\A id \in 1..Len(objs) :
          C24_FetchFailed(id) =>
              /\ uiError' = uiError
              /\ objs'[id].title = objs[id].title
              /\ objs'[id].overview = objs[id].overview
              /\ objs'[id].genres = objs[id].genres]_vars


(***************************************************************************)
(* C25: a background fetch task changes only the fields of the entry it    *)
(* was spawned for, the cache files, and emits that entry's updated        *)
(* signal: in every interleaving with scans, including a fetch of an       *)
(* earlier scan finishing after a later scan, it never adds, removes or    *)
(* reorders elements of the library's entry list and never changes a field *)
(* of another entry.                                                       *)
(***************************************************************************)
\* the fetch thread of entry id ends in this step
C25_FetchEnds(id) == objs[id].thread = "running" /\ objs'[id].thread # "running"

C25_FetchTouchesOwnEntryOnly ==
    [][\A id \in 1..Len(objs) :
          C25_FetchEnds(id) =>
              /\ video_items' = video_items
              /\ Len(objs') = Len(objs)
              /\ \A other \in 1..Len(objs) : other # id => objs'[other] = objs[other]
              /\ objs'[id].type = objs[id].type
              /\ objs'[id].path = objs[id].path
              /\ objs'[id].filename = objs[id].filename]_vars

\* the fetch of the entry of an earlier scan has written its record and
\* emitted after a later scan built the entry that is now listed
C25_Witness ==
    /\ Len(objs) = 2
    /\ video_items = <<2>>
    /\ objs[1].emits = 1
    /\ objs[1].overview # FStr(DefaultOverview)
    /\ objs[2].overview = FStr(DefaultOverview)
    /\ objs[2].path = objs[1].path


(***************************************************************************)
(* C26: given a non-empty tmdb_api_key, no value of the other              *)
(* configuration keys aborts startup: a theme outside the enumerated set,  *)
(* an unknown last_type, a missing folders key or folders that do not      *)
(* exist all leave the library window constructed without raising.         *)
(***************************************************************************)
\* the loaded configuration has a non-empty key
C26_HasKey ==
    /\ load_config(boot.file).kind = "dict"
    /\ Truthy(DictGet(load_config(boot.file), KeyApi, FStr(<<>>)))

\* with a key, the program is before the constructor of the window or the
\* constructor has returned; it never ends with an error
C26_KeyedStartupNeverRaises ==
    C26_HasKey => (boot.phase \in {"start", "ready"} /\ boot.error = "none")


(***************************************************************************)
(* C27: for every entry whose fetch finds a remote result, the cache       *)
(* record is written before the entry's updated notification is emitted,   *)
(* and the notification is emitted exactly once for that fetch; a fetch    *)
(* that finds no result or fails emits no notification.                    *)
(***************************************************************************)
\* the key the fetch of entry e writes its record under
C27_Key(e) == IF e.type = "video" THEN e.filename ELSE PyStr(e.title)

\* the fetch of entry id ends in this step
C27_FetchEnds(id) == objs[id].thread = "running" /\ objs'[id].thread # "running"

\* the step has written the record of entry id: the write is logged and the
\* file holds the three fields the entry has afterwards
C27_Written(id) ==
    /\ LogEntry(id, "save_meta", C27_Key(objs'[id])) \in ioLog' \ ioLog
    /\ FileExists(metaDir', C27_Key(objs'[id]))
    /\ FileData(metaDir', C27_Key(objs'[id])) = json_dump(SafeData(EntryRecord(objs'[id])))

C27_OneEmitAfterWrite ==
    [][\A id \in 1..Len(objs) :
          objs'[id].emits =
              IF C27_FetchEnds(id) /\ C27_Written(id) THEN objs[id].emits + 1
              ELSE objs[id].emits]_vars

\* one fetch has written and emitted, and the fetch of another entry has
\* ended on a write that raised, without a notification
C27_Witness ==
    \E a, b \in 1..Len(objs) :
        /\ objs[a].thread = "finished"
        /\ objs[a].emits = 1
        /\ FileExists(metaDir, C27_Key(objs[a]))
        /\ objs[b].thread = "finished"
        /\ objs[b].emits = 0
        /\ LogEntry(b, "save_meta", C27_Key(objs[b])) \in ioLog
        /\ ~FileExists(metaDir, C27_Key(objs[b]))


(***************************************************************************)
(* C28: after a StandaloneVideo's fetch completes successfully and no      *)
(* other task writes the same key, the cache record of its key equals the  *)
(* entry's in-memory state: same title, same overview, same genre ids as   *)
(* integers in the same order.                                             *)
(***************************************************************************)
\* the only writer of the key is through: _fetch_online has handed the
\* title, overview and genres of its entry to save_metadata, and the call
\* has returned
C28_FetchDone == Len(race.writers) = 1 /\ race.writers[1].pc = "done"

\* the record the file of the key holds is the one the entry has in memory
C28_CacheEqualsMemory ==
    C28_FetchDone =>
        /\ race.link # 0
        /\ json_load(race.inodes[race.link]).ok
        /\ json_load(race.inodes[race.link]).val = json_load(race.writers[1].data).val


(***************************************************************************)
(* C29: when save_metadata(key, data) fails because a genre id cannot be   *)
(* coerced to an integer, the error is raised before the file is opened:   *)
(* an existing record of that key is left unchanged on disk and no file is *)
(* created when none existed.                                              *)
(***************************************************************************)
\* the traced call c is a save_metadata whose data has a genre id that int()
\* rejects
C29_BadCall(c) ==
    /\ c.op = "save"
    /\ \E j \in 1..Len(DictGet(c.data, KeyGenres, FList(<<>>)).items) :
          ~IntOk(DictGet(c.data, KeyGenres, FList(<<>>)).items[j])

C29_BadSave(i) == i <= Len(cacheTrace) /\ C29_BadCall(cacheTrace[i])

\* the step is such a call
C29_BadSaveStep ==
    /\ Len(cacheTrace') = Len(cacheTrace) + 1
    /\ C29_BadCall(cacheTrace'[Len(cacheTrace')])

C29_FailedSaveLeavesFile ==
    [][C29_BadSaveStep =>
          /\ cacheTrace'[Len(cacheTrace')].raised = "ValueError"
          /\ cacheTrace'[Len(cacheTrace')].after = cacheTrace'[Len(cacheTrace')].before
          /\ metaDir' = metaDir]_vars

\* such a call has been made on a key that had a record, and another on a
\* key that had no file
C29_Witness ==
    /\ C29_BadSave(1)
    /\ C29_BadSave(2)
    /\ cacheTrace[1].before.exists
    /\ json_load(cacheTrace[1].before.data).ok
    /\ cacheTrace[1].after = cacheTrace[1].before
    /\ ~cacheTrace[2].before.exists
    /\ ~cacheTrace[2].after.exists


(***************************************************************************)
(* C30: the two episode parsers agree whenever the primary one matches:    *)
(* for every file name on which parse_filename takes its match branch,     *)
(* parse_episode_number applied to the same file name returns the same     *)
(* episode integer; they can differ only on names the primary parser does  *)
(* not match.                                                              *)
(***************************************************************************)
\* parse_filename takes its match branch on the drawn name
C30_PrimaryMatches == PrimaryMatch(SplitextStem(pyName)).ok

\* the step applies parse_episode_number to the name parse_filename was
\* applied to
C30_SecondAfterFirst == pyCall = "parse_filename" /\ pyCall' = "parse_episode_number"

C30_ParsersAgree ==
    [][(C30_SecondAfterFirst /\ C30_PrimaryMatches) =>
          pyResult'.episode = pyResult.episode]_vars

\* both parsers have run on a name the primary pattern matches, whose title
\* holds a second tag with another episode number
C30_Witness ==
    /\ pyCall = "parse_episode_number"
    /\ C30_PrimaryMatches
    /\ pyResult.episode > 0
    /\ \E p \in 2..Len(pyName) :
          /\ EpisodeGroupAt(pyName, p) # <<>>
          /\ DigitsToInt(EpisodeGroupAt(pyName, p)) # pyResult.episode

====
